---- MODULE Spec2Model ----
(***************************************************************************)
(* opfwd: a daemon that listens on a Unix socket, reads one command line   *)
(* per connection, checks it against a whitelist and, if allowed, runs the *)
(* 1Password CLI ("op") with it, relaying the child's output.              *)
(*                                                                         *)
(* A Go string is modelled as a sequence of characters (one-character TLA+ *)
(* strings); the literals the server itself emits ("--account", the error  *)
(* prefixes) are single atoms of such a sequence.                          *)
(***************************************************************************)
EXTENDS Integers, Sequences, FiniteSets, TLC

\* ------------------------------------------------------------------ bounds
\* longest command string and longest policy entry that validateCommand is
\* applied to on its own
MaxLen == 3
MaxEntryLen == 3

\* ------------------------------------------------------------- characters
\* unicode.IsSpace: in Latin-1 the characters \t, \n, \v, \f, \r, the space,
\* U+0085 (NEL) and U+00A0 (NBSP); beyond it the characters with the property
\* White_Space.  A character that a TLA+ string cannot hold is written as an
\* atom naming its code point.
VT == "<U+000B>"
NEL == "<U+0085>"
NBSP == "<U+00A0>"
UnicodeSpaces ==
    {"<U+1680>", "<U+2000>", "<U+2001>", "<U+2002>", "<U+2003>", "<U+2004>",
     "<U+2005>", "<U+2006>", "<U+2007>", "<U+2008>", "<U+2009>", "<U+200A>",
     "<U+2028>", "<U+2029>", "<U+202F>", "<U+205F>", "<U+3000>"}

WhiteSpace == {" ", "\t", "\n", "\r", "\f", VT, NEL, NBSP} \cup UnicodeSpaces

\* the alphabet command strings are drawn from: two letters and two blanks
Chars == {"a", "b", " ", "\t"}

IsSpace(ch) == ch \in WhiteSpace

\* all strings over alphabet A of length at most n
StringsUpTo(A, n) == UNION {[1..k -> A] : k \in 0..n}

\* ------------------------------------------------- Go's strings functions
\* strings.TrimSpace: drop leading and trailing white space
TrimSpace(s) ==
    LET nonsp == {i \in 1..Len(s) : ~IsSpace(s[i])}
    IN  IF nonsp = {} THEN <<>>
        ELSE LET lo == CHOOSE i \in nonsp : \A j \in nonsp : i <= j
                 hi == CHOOSE i \in nonsp : \A j \in nonsp : j <= i
             IN  SubSeq(s, lo, hi)

\* strings.HasPrefix: len(s) >= len(prefix) && s[:len(prefix)] == prefix
HasPrefix(s, prefix) ==
    /\ Len(s) >= Len(prefix)
    /\ SubSeq(s, 1, Len(prefix)) = prefix

\* strings.Fields: split around each run of white space; no empty fields
RECURSIVE FieldsFrom(_, _, _)
FieldsFrom(s, i, cur) ==
    IF i > Len(s)
    THEN IF cur = <<>> THEN <<>> ELSE <<cur>>
    ELSE IF IsSpace(s[i])
         THEN (IF cur = <<>> THEN <<>> ELSE <<cur>>) \o FieldsFrom(s, i + 1, <<>>)
         ELSE FieldsFrom(s, i + 1, Append(cur, s[i]))

Fields(s) == FieldsFrom(s, 1, <<>>)

\* bufio.ScanLines applied by Scanner.Scan to everything the peer sent before
\* it stopped sending: the token is the text before the first newline, or, at
\* end of input, the unterminated rest when it is not empty; one trailing
\* carriage return is dropped.  HasLine is Scan's result, ScanText is Text().
dropCR(s) == IF Len(s) > 0 /\ s[Len(s)] = "\r" THEN SubSeq(s, 1, Len(s) - 1) ELSE s

NewlineAt(data) == {i \in 1..Len(data) : data[i] = "\n"}

\* bufio.NewScanner gives the scanner a buffer that grows to
\* bufio.MaxScanTokenSize bytes (64 * 1024) and no further: when the buffer is
\* full and holds no newline, Scan fails with ErrTooLong
MaxScanTokenSize == 65536

\* a character of the model that stands for a run of MaxScanTokenSize
\* letters x
LongRun == "<64 KiB of x>"

\* a character of the model that stands for the nine letters of "--account",
\* so that a request can have the token the server itself puts first
AccountOption == "--account"

\* the bytes a character takes in the scanner's buffer (UTF-8)
Bytes(ch) ==
    IF ch = LongRun THEN MaxScanTokenSize
    ELSE IF ch = AccountOption THEN 9
    ELSE IF ch \in {NEL, NBSP} THEN 2
    ELSE IF ch \in UnicodeSpaces THEN 3
    ELSE 1

RECURSIVE ByteLen(_)
ByteLen(s) == IF s = <<>> THEN 0 ELSE Bytes(Head(s)) + ByteLen(Tail(s))

\* what ScanLines has to find in the buffer: the bytes before the first
\* newline, or all of them when there is none
BeforeNewline(data) ==
    IF NewlineAt(data) # {}
    THEN LET i == CHOOSE k \in NewlineAt(data) : \A j \in NewlineAt(data) : k <= j
         IN  SubSeq(data, 1, i - 1)
    ELSE data

HasLine(data) ==
    /\ NewlineAt(data) # {} \/ Len(data) > 0
    /\ ByteLen(BeforeNewline(data)) < MaxScanTokenSize

\* a scanner that keeps the last terminated line instead of the first
ScanTextLast(data) ==
    IF NewlineAt(data) # {}
    THEN LET i == CHOOSE k \in NewlineAt(data) : \A j \in NewlineAt(data) : k >= j
             before == {0} \cup {k \in NewlineAt(data) : k < i}
             j == CHOOSE k \in before : \A m \in before : k >= m
         IN  dropCR(SubSeq(data, j + 1, i - 1))
    ELSE dropCR(data)

ScanText(data) ==
    IF NewlineAt(data) # {}
    THEN LET i == CHOOSE k \in NewlineAt(data) : \A j \in NewlineAt(data) : k <= j
         IN  dropCR(SubSeq(data, 1, i - 1))
    ELSE dropCR(data)

\* ----------------------------------------------------------------- state
Conns == {1, 2}

\* the first connection the server accepts
FirstConn == {c \in Conns : \A d \in Conns : c <= d}

VARIABLES
    config,      \* the global Config (policy, account), set before listening
    snapshot,    \* which snapshot of main.go runs: with or without the WaitGroup
    pc,          \* pc[c]: where connection c's handler goroutine is blocked
    sent,        \* sent[c]: the bytes the peer sent on c before it stopped sending
    input,       \* input[c]: the trimmed request line of c
    out,         \* out[c]: what has been written to connection c, in order
    connClosed,  \* connClosed[c]: conn.Close() has been called on c
    trace,       \* trace[c]: the steps c's handling went through, in order
    spawns,      \* spawns[c]: the subprocesses started for c, in order
    child,       \* child[c]: the command subprocess: "none", "running",
                 \* "exited" (with status zero) or "failed" (any other status)
    wrote,       \* wrote[c]: the streams the child has written its output to
    pipe,        \* pipe[c][s]: the bytes in the pipe of the child's stream s
    pipesClosed, \* pipesClosed[c]: Wait closed the parent's ends of both pipes
    copier,      \* copier[c][s]: the goroutine copying stream s to the connection
    exits,       \* exits[c]: how the status check and the sign-in of c ended
    logs,        \* logs[c]: what the handling of c wrote to the server's log
    crashed,     \* the server process died of a panic nobody recovered
    hungup,      \* hungup[c]: the peer has closed its end of connection c
    fnIn,        \* argument of the call looked at on its own: the command of
                 \* validateCommand, the arguments of runClient
    fnOut,       \* its result
    fnDone,      \* whether the call has been made
    umask,       \* the permission bits the process's umask takes away
    fsFile,      \* what is at the socket path in the file system
    listener,    \* listener[i]: the listener of server instance i
    ipc,         \* ipc[i]: where the main goroutine of instance i is
    sigpc,       \* sigpc[i]: where the signal goroutine of instance i is
    ierr,        \* ierr[i]: the error setupSocket returned in instance i
    ilog,        \* ilog[i]: what instance i logged about its socket
    acceptpc     \* acceptpc[i]: where the accept loop (startServer) of i is

connVars == <<pc, sent, input, out, connClosed, trace, spawns,
              child, wrote, pipe, pipesClosed, copier, exits, logs, crashed,
              hungup>>
fnVars == <<fnIn, fnOut, fnDone>>
sockVars == <<umask, fsFile, listener, ipc, sigpc, ierr, ilog, acceptpc>>
vars == <<config, snapshot, connVars, fnVars, sockVars>>

Streams == {"stdout", "stderr"}

\* ------------------------------------------------------------ the policy
\* variants of validateCommand with a slip: the arguments of the comparison
\* swapped to a prefix test of the entry, the exact loop left out, the prefix
\* loop left out, the trimming left out, and an exact loop that an empty list
\* satisfies
validateCommandSwapped(cmd) ==
    LET cmdWithArgs == TrimSpace(cmd)
    IN  \/ \E i \in 1..Len(config.AllowedCommands) :
               HasPrefix(config.AllowedCommands[i], cmdWithArgs)
        \/ \E i \in 1..Len(config.AllowedPrefixes) :
               HasPrefix(cmdWithArgs, config.AllowedPrefixes[i])

validateCommandPrefixOnly(cmd) ==
    LET cmdWithArgs == TrimSpace(cmd)
    IN  \E i \in 1..Len(config.AllowedPrefixes) :
            HasPrefix(cmdWithArgs, config.AllowedPrefixes[i])

validateCommandExactOnly(cmd) ==
    LET cmdWithArgs == TrimSpace(cmd)
    IN  \E i \in 1..Len(config.AllowedCommands) :
            cmdWithArgs = config.AllowedCommands[i]

validateCommandNoTrim(cmd) ==
    \/ \E i \in 1..Len(config.AllowedCommands) : cmd = config.AllowedCommands[i]
    \/ \E i \in 1..Len(config.AllowedPrefixes) :
           HasPrefix(cmd, config.AllowedPrefixes[i])

validateCommandVacuous(cmd) ==
    LET cmdWithArgs == TrimSpace(cmd)
    IN  \/ \A i \in 1..Len(config.AllowedCommands) :
               cmdWithArgs = config.AllowedCommands[i]
        \/ \E i \in 1..Len(config.AllowedPrefixes) :
               HasPrefix(cmdWithArgs, config.AllowedPrefixes[i])

\* a validateCommand that allows nothing once a request on some connection
\* has been rejected
validateCommandLockout(cmd) ==
    LET cmdWithArgs == TrimSpace(cmd)
    IN  /\ \A d \in Conns : \A k \in 1..Len(trace[d]) : trace[d][k] # "rejected"
        /\ \/ \E i \in 1..Len(config.AllowedCommands) :
                   cmdWithArgs = config.AllowedCommands[i]
           \/ \E i \in 1..Len(config.AllowedPrefixes) :
                   HasPrefix(cmdWithArgs, config.AllowedPrefixes[i])

\* validateCommand: trim, then the exact loop, then the prefix loop
validateCommand(cmd) ==
    LET cmdWithArgs == TrimSpace(cmd)
    IN  \/ \E i \in 1..Len(config.AllowedCommands) :
               cmdWithArgs = config.AllowedCommands[i]
        \/ \E i \in 1..Len(config.AllowedPrefixes) :
               HasPrefix(cmdWithArgs, config.AllowedPrefixes[i])

\* ------------------------------------------------- texts and arguments
Str(atom) == <<atom>>

\* the rejection line without its newline
RejectionTextNoNewline(inp) == Str("Error: Command not allowed: ") \o inp

\* the rejection line of handleConnection
RejectionText(inp) == Str("Error: Command not allowed: ") \o inp \o Str("\n")

\* the line executeCommand writes when ensureLoggedIn returned err, err being
\* fmt.Errorf("failed to sign in to 1Password: %v", err) of the sign-in's error
SignInError(err) == Str("failed to sign in to 1Password: ") \o Str(err)
AuthFailureTextTwoLines(err) ==
    Str("Error: Could not sign in to 1Password: ") \o Str("\n")
        \o SignInError(err) \o Str("\n")
AuthFailureText(err) ==
    Str("Error: Could not sign in to 1Password: ") \o SignInError(err) \o Str("\n")

\* the line executeCommand writes when a pipe or the start of the child failed
ExecFailureTextNoPrefix(err) == Str(err) \o Str("\n")
ExecFailureText(err) == Str("Error: ") \o Str(err) \o Str("\n")

\* the argument vectors of the three invocations of op
StatusArgs == <<Str("--account"), config.Account, Str("account"), Str("get")>>
SigninArgs == <<Str("signin"), Str("--account"), config.Account>>
CommandArgsUnsplit(inp) == <<Str("--account"), config.Account, inp>>
CommandArgs(inp) == <<Str("--account"), config.Account>> \o Fields(inp)

Spawn(kind, argv) == [kind |-> kind, argv |-> argv]

\* what the child writes on a stream
ChildOutput(s) == IF s = "stdout" THEN "<op stdout>" ELSE "<op stderr>"

\* ------------------------------------------------ initial state and inputs
Account == Str("acct")

Policy(exact, prefixes) ==
    [AllowedCommands |-> exact, AllowedPrefixes |-> prefixes, Account |-> Account]

\* the policies the server is started with: one with an exact command "a b"
\* and a prefix "b", and the empty policy
ServerPolicies ==
    { Policy(<< <<"a", " ", "b">> >>, << <<"b">> >>),
      Policy(<<>>, <<>>) }

\* what a peer sends on a connection before it stops sending
ClientInputs ==
    { <<" ", "a", " ", "b", "\t", "\n">>,  \* the exact command in white space
      <<"b", "\t", "a", "\n">>,            \* a command with the prefix
      <<"a", "\n">>,                       \* a command the policy does not have
      <<"a", "\r">>,                       \* the same, ended without a newline
      <<>> }                               \* nothing

Snapshots == {"main.go", "part_000"}

\* ------------------------------------------------------ the socket file
\* the server instances that may be started on the same socket path
Instances == {1, 2}

\* permission bits: read, write and execute for user, group and others
PermBits == {"ur", "uw", "ux", "gr", "gw", "gx", "or", "ow", "ox"}
Mode0600 == {"ur", "uw"}
Mode0777 == PermBits

\* the umasks a server is run under: 022, 002, 077 and 000
Umasks == { {"gw", "ow"}, {"ow"}, {"gr", "gw", "gx", "or", "ow", "ox"}, {} }

\* nothing at the path; a socket file bound by instance i; a file that was
\* there before any instance started (owner 0)
NoFile == [kind |-> "none", owner |-> 0, mode |-> {}]
SocketFile(i, mode) == [kind |-> "socket", owner |-> i, mode |-> mode]
StaleFile == [kind |-> "socket", owner |-> 0, mode |-> Mode0600]

\* the state of the socket while connections are served: instance 1 has set
\* up its socket and is serving
SockServing ==
    /\ umask = {"gw", "ow"}
    /\ fsFile = SocketFile(1, Mode0600)
    /\ listener = [i \in Instances |-> IF i = 1 THEN "open" ELSE "none"]
    /\ ipc = [i \in Instances |-> IF i = 1 THEN "serving" ELSE "off"]
    /\ sigpc = [i \in Instances |-> IF i = 1 THEN "waiting" ELSE "none"]
    /\ ierr = [i \in Instances |-> "none"]
    /\ ilog = [i \in Instances |-> IF i = 1 THEN <<"Server listening">> ELSE <<>>]
    /\ acceptpc = [i \in Instances |-> IF i = 1 THEN "accepting" ELSE "none"]

ConnInit ==
    /\ pc = [c \in Conns |-> "idle"]
    /\ sent = [c \in Conns |-> <<>>]
    /\ input = [c \in Conns |-> <<>>]
    /\ out = [c \in Conns |-> <<>>]
    /\ connClosed = [c \in Conns |-> FALSE]
    /\ trace = [c \in Conns |-> <<>>]
    /\ spawns = [c \in Conns |-> <<>>]
    /\ child = [c \in Conns |-> "none"]
    /\ wrote = [c \in Conns |-> {}]
    /\ pipe = [c \in Conns |-> [s \in Streams |-> <<>>]]
    /\ pipesClosed = [c \in Conns |-> FALSE]
    /\ copier = [c \in Conns |-> [s \in Streams |-> "none"]]
    /\ exits = [c \in Conns |-> <<>>]
    /\ logs = [c \in Conns |-> <<>>]
    /\ crashed = FALSE
    /\ hungup = [c \in Conns |-> FALSE]

Init ==
    /\ config \in ServerPolicies
    /\ snapshot \in Snapshots
    /\ ConnInit
    /\ SockServing
    /\ fnIn = <<>>
    /\ fnOut = FALSE
    /\ fnDone = FALSE

\* ------------------------------------------------- the connection handler
\* the deferred calls of handleConnection that run when it returns or panics,
\* in the order they run: the deferred conn.Close(), then the recover
\* function, which closes the connection again when there was a panic
DeferredCallsNoDefer(panicking) ==
    IF panicking THEN <<"log", "conn.Close">> ELSE <<>>
DeferredCalls(panicking) ==
    <<"conn.Close">> \o (IF panicking THEN <<"log", "conn.Close">> ELSE <<>>)

ClosesConn(calls) == \E i \in 1..Len(calls) : calls[i] = "conn.Close"

\* the line the recover function of handleConnection logs
RecoverLog(calls) ==
    IF \E i \in 1..Len(calls) : calls[i] = "log"
    THEN <<"Recovered from panic in connection handler">> ELSE <<>>

\* handleConnection returns (or panics) after writing text, logging lines
\* and passing events
Return(c, events, text, lines, panicking) ==
    /\ pc' = [pc EXCEPT ![c] = "Closed"]
    /\ logs' = [logs EXCEPT ![c] = @ \o lines \o RecoverLog(DeferredCalls(panicking))]
    /\ out' = [out EXCEPT ![c] = @ \o text]
    /\ connClosed' = [connClosed EXCEPT ![c] =
                         @ \/ ClosesConn(DeferredCalls(panicking))]
    /\ trace' = [trace EXCEPT ![c] =
                    @ \o events \o
                    (IF ClosesConn(DeferredCalls(panicking)) THEN <<"close">> ELSE <<>>)]

\* the goroutines of the server run: the process has not died of a panic and
\* main has not returned
MainAlive(i) == ipc[i] \in {"serving", "recovering"}

Running == ~crashed /\ \E i \in Instances : MainAlive(i)

\* listener.Accept() can return a connection: the accept loop is in Accept
\* and the listener has not been closed
Listening ==
    \E i \in Instances :
        ipc[i] = "serving" /\ listener[i] = "open" /\ acceptpc[i] = "accepting"

\* the connections whose handlers must have returned before the accept loop
\* takes connection c: none, as each handler is started with a go statement
AcceptWaitsForPrior(c) == {d \in Conns : d < c}
AcceptWaitsFor(c) == {}

\* startServer: Accept returns connection c, on which the peer sends data,
\* and the handler goroutine is started; connections are numbered in the
\* order they are accepted
Accept(c, data) ==
    /\ Running
    /\ Listening
    /\ \A d \in AcceptWaitsFor(c) : pc[d] = "Closed"
    /\ pc[c] = "idle"
    /\ \A d \in Conns : d < c => pc[d] # "idle"
    /\ pc' = [pc EXCEPT ![c] = "ReadingRequest"]
    /\ sent' = [sent EXCEPT ![c] = data]
    /\ UNCHANGED <<config, snapshot, hungup, input, out, connClosed, trace, spawns,
                   child, wrote, pipe, pipesClosed, copier, exits, logs,
                   crashed, fnVars, sockVars>>

\* ensureLoggedIn starts its status check on every call: nothing of an
\* earlier call is kept
StatusCheckCached(c) ==
    IF \E d \in Conns \ {c} : \E i \in 1..Len(trace[d]) : trace[d][i] = "authenticate"
    THEN <<>> ELSE <<Spawn("status", StatusArgs)>>
StatusCheck(c) == <<Spawn("status", StatusArgs)>>

\* the connections whose ensureLoggedIn must have returned before that of c
\* starts: none, as ensureLoggedIn takes no lock and keeps no state
EnsureLoggedInExclusive(c) == Conns \ {c}
EnsureLoggedInWaitsFor(c) == {}

\* handleConnection from Scan to the start of the status check of
\* ensureLoggedIn (checkCmd.Run), where it blocks
ReadRequest(c) ==
    /\ Running
    /\ pc[c] = "ReadingRequest"
    /\ IF ~HasLine(sent[c])
       THEN /\ Return(c, <<"read_failed">>, <<>>,
                        <<"Error reading from connection">>, FALSE)
            /\ UNCHANGED <<input, spawns>>
       ELSE LET inp == TrimSpace(ScanText(sent[c]))
            IN  /\ input' = [input EXCEPT ![c] = inp]
                /\ IF ~validateCommand(inp)
                   THEN /\ Return(c, <<"read", "rejected">>, RejectionText(inp),
                                <<"Command not allowed">>, FALSE)
                        /\ UNCHANGED spawns
                   ELSE /\ \A d \in EnsureLoggedInWaitsFor(c) :
                               pc[d] \notin {"CheckingStatus", "SigningIn"}
                        /\ pc' = [pc EXCEPT ![c] = "CheckingStatus"]
                        /\ trace' = [trace EXCEPT ![c] = @ \o <<"read", "validate">>]
                        /\ spawns' = [spawns EXCEPT ![c] = @ \o StatusCheck(c)]
                        /\ UNCHANGED <<out, connClosed, logs>>
    /\ UNCHANGED <<config, snapshot, hungup, sent, child, wrote, pipe, pipesClosed,
                   copier, exits, crashed, fnVars, sockVars>>

\* executeCommand after ensureLoggedIn returned nil: the arguments are built,
\* the two pipes are created and the child is started, any of which may fail;
\* on success the two copying goroutines are started and the handler blocks
\* in opCmd.Wait
ExecOutcomes == {"started", "stdout pipe error", "stderr pipe error", "start error"}

Execute(c, outcome) ==
    IF outcome = "started"
    THEN /\ pc' = [pc EXCEPT ![c] = "Relaying"]
         /\ trace' = [trace EXCEPT ![c] = @ \o <<"authenticate", "execute">>]
         /\ spawns' = [spawns EXCEPT ![c] =
                          Append(@, Spawn("command", CommandArgs(input[c])))]
         /\ child' = [child EXCEPT ![c] = "running"]
         /\ copier' = [copier EXCEPT ![c] = [s \in Streams |-> "running"]]
         /\ UNCHANGED <<out, connClosed, logs>>
    ELSE /\ Return(c, <<"authenticate",
                        IF outcome = "start error" THEN "spawn_failed" ELSE "pipe_failed">>,
                   ExecFailureText(outcome), <<outcome>>, FALSE)
         /\ UNCHANGED <<spawns, child, copier>>

\* ensureLoggedIn: the status check exits; with status zero ensureLoggedIn
\* returns nil and executeCommand goes on, otherwise the sign-in is started
\* (signinCmd.CombinedOutput), where the handler blocks again
ExitOf(ok) == IF ok THEN "zero" ELSE "nonzero"

\* whether ensureLoggedIn goes on to the sign-in after the status check
NeedsSignInAlways(ok) == TRUE
NeedsSignIn(ok) == ~ok

StatusExit(c, ok, outcome) ==
    /\ Running
    /\ pc[c] = "CheckingStatus"
    /\ exits' = [exits EXCEPT ![c] = Append(@, ExitOf(ok))]
    /\ IF ~NeedsSignIn(ok)
       THEN Execute(c, outcome)
       ELSE /\ outcome = "started"
            /\ pc' = [pc EXCEPT ![c] = "SigningIn"]
            /\ spawns' = [spawns EXCEPT ![c] = Append(@, Spawn("signin", SigninArgs))]
            /\ UNCHANGED <<out, connClosed, trace, child, copier, logs>>
    /\ UNCHANGED <<config, snapshot, hungup, sent, input, wrote, pipe, pipesClosed,
                   crashed, fnVars, sockVars>>

\* ensureLoggedIn: the sign-in exits; on failure the error goes back to
\* executeCommand, which writes the line and returns
\* what the sign-in printed, captured by CombinedOutput
SigninOutput == "<op signin output>"

\* the two lines logged when the sign-in failed: the captured output by
\* ensureLoggedIn, the error by executeCommand
SigninFailureLog(err) ==
    <<"Sign in attempt failed, output: ", SigninOutput,
      "Error ensuring login: ">> \o SignInError(err)

SigninExit(c, ok, outcome) ==
    /\ Running
    /\ pc[c] = "SigningIn"
    /\ exits' = [exits EXCEPT ![c] = Append(@, ExitOf(ok))]
    /\ IF ok
       THEN Execute(c, outcome)
       ELSE /\ outcome = "started"
            /\ Return(c, <<"auth_failed">>, AuthFailureText("exit status 1"),
                      SigninFailureLog("exit status 1"), FALSE)
            /\ UNCHANGED <<spawns, child, copier>>
    /\ UNCHANGED <<config, snapshot, hungup, sent, input, wrote, pipe, pipesClosed,
                   crashed, fnVars, sockVars>>

\* ------------------------------------------------------------- the relay
\* the child writes its output of stream s into the pipe
ChildWrite(c, s) ==
    /\ Running
    /\ child[c] = "running"
    /\ s \notin wrote[c]
    /\ wrote' = [wrote EXCEPT ![c] = @ \cup {s}]
    /\ pipe' = [pipe EXCEPT ![c][s] = Append(@, ChildOutput(s))]
    /\ UNCHANGED <<config, snapshot, hungup, pc, sent, input, out, connClosed, trace,
                   spawns, child, pipesClosed, copier, exits, logs, crashed,
                   fnVars, sockVars>>

\* the command subprocess of c has ended
ChildExited(c) == child[c] \in {"exited", "failed"}

\* the child exits, with status zero or not, which closes its ends of the
\* pipes
ChildExit(c, ok) ==
    /\ Running
    /\ child[c] = "running"
    /\ child' = [child EXCEPT ![c] = IF ok THEN "exited" ELSE "failed"]
    /\ UNCHANGED <<config, snapshot, hungup, pc, sent, input, out, connClosed, trace,
                   spawns, wrote, pipe, pipesClosed, copier, exits, logs,
                   crashed, fnVars, sockVars>>

\* the relay of c is over when both copying goroutines have returned
RelayEvent(c, cp) ==
    IF \A s \in Streams : cp[c][s] = "done" THEN <<"relay">> ELSE <<>>

\* what io.Copy writes to the connection for a chunk it read from the pipe:
\* the chunk and nothing else
CopyWritesFramed(chunk) == <<"<frame>", chunk>>
CopyWrites(chunk) == <<chunk>>

\* io.Copy(conn, stream) moves what is in the pipe to the connection; the
\* write fails when the connection has been closed or the peer has closed
\* its end, which ends the copy
CopyChunk(c, s) ==
    /\ Running
    /\ copier[c][s] = "running"
    /\ ~pipesClosed[c]
    /\ pipe[c][s] # <<>>
    /\ pipe' = [pipe EXCEPT ![c][s] = Tail(@)]
    /\ IF connClosed[c] \/ hungup[c]
       THEN /\ copier' = [copier EXCEPT ![c][s] = "done"]
            /\ trace' = [trace EXCEPT ![c] = @ \o RelayEvent(c, copier')]
            /\ UNCHANGED out
       ELSE /\ out' = [out EXCEPT ![c] = @ \o CopyWrites(Head(pipe[c][s]))]
            /\ UNCHANGED <<copier, trace>>
    /\ UNCHANGED <<config, snapshot, hungup, pc, sent, input, connClosed, spawns,
                   child, wrote, pipesClosed, exits, logs, crashed, fnVars, sockVars>>

\* io.Copy returns: at end of file (the pipe is empty and the child has
\* exited) or with an error because Wait closed the pipe it reads from, in
\* which case what was still in the pipe is never read
CopyEnd(c, s) ==
    /\ Running
    /\ copier[c][s] = "running"
    /\ \/ pipesClosed[c]
       \/ pipe[c][s] = <<>> /\ ChildExited(c)
    /\ copier' = [copier EXCEPT ![c][s] = "done"]
    /\ trace' = [trace EXCEPT ![c] = @ \o RelayEvent(c, copier')]
    /\ UNCHANGED <<config, snapshot, hungup, pc, sent, input, out, connClosed, spawns,
                   child, wrote, pipe, pipesClosed, exits, logs, crashed, fnVars, sockVars>>

\* a panic in one of the two copying goroutines of executeCommand: they run
\* outside handleConnection's deferred recover, so the process dies
CopyPanic(c, s) ==
    /\ Running
    /\ copier[c][s] = "running"
    /\ crashed' = TRUE
    /\ UNCHANGED <<config, snapshot, hungup, pc, sent, input, out, connClosed, trace,
                   spawns, child, wrote, pipe, pipesClosed, copier, exits, logs,
                   fnVars, sockVars>>

\* opCmd.Wait returns once the child has exited, and closes the parent's ends
\* of the pipes; main.go then returns, part_000 goes on to wg.Wait
HasWaitGroup == snapshot = "part_000"

\* what executeCommand writes to the connection and what it logs when
\* opCmd.Wait returned an error, as it does for a status other than zero:
\* nothing is written ("Error already sent via stderr pipe")
WaitErrorTextEscalated(state) ==
    IF state = "failed" THEN ExecFailureText("exit status 1") ELSE <<>>
WaitErrorText(state) == <<>>

WaitErrorLog(state) ==
    IF state = "failed" THEN <<"Command execution error">> ELSE <<>>

WaitReturns(c) ==
    /\ Running
    /\ pc[c] = "Relaying"
    /\ ChildExited(c)
    /\ pipesClosed' = [pipesClosed EXCEPT ![c] = TRUE]
    /\ IF HasWaitGroup
       THEN /\ pc' = [pc EXCEPT ![c] = "WgWait"]
            /\ out' = [out EXCEPT ![c] = @ \o WaitErrorText(child[c])]
            /\ logs' = [logs EXCEPT ![c] = @ \o WaitErrorLog(child[c])]
            /\ UNCHANGED <<connClosed, trace>>
       ELSE Return(c, <<>>, WaitErrorText(child[c]), WaitErrorLog(child[c]), FALSE)
    /\ UNCHANGED <<config, snapshot, hungup, sent, input, spawns, child, wrote, pipe,
                   copier, exits, crashed, fnVars, sockVars>>

\* wg.Wait returns when both copying goroutines are done; executeCommand and
\* handleConnection return
WgDone(c) ==
    /\ Running
    /\ pc[c] = "WgWait"
    /\ \A s \in Streams : copier[c][s] = "done"
    /\ Return(c, <<>>, <<>>, <<>>, FALSE)
    /\ UNCHANGED <<config, snapshot, hungup, sent, input, spawns, child, wrote, pipe,
                   pipesClosed, copier, exits, crashed, fnVars, sockVars>>

\* a panic in the handler goroutine while it services c: the deferred calls
\* run and the goroutine ends
Panic(c) ==
    /\ Running
    /\ pc[c] \in {"ReadingRequest", "CheckingStatus", "SigningIn", "Relaying", "WgWait"}
    /\ Return(c, <<"panic">>, <<>>, <<>>, TRUE)
    /\ UNCHANGED <<config, snapshot, hungup, sent, input, spawns, child, wrote, pipe,
                   pipesClosed, copier, exits, crashed, fnVars, sockVars>>

\* with two connections the commands end with status zero; LineSpec below has
\* both kinds of exit
Next ==
    \/ \E c \in Conns, data \in ClientInputs : Accept(c, data)
    \/ \E c \in Conns : ReadRequest(c)
    \/ \E c \in Conns, ok \in BOOLEAN, o \in ExecOutcomes : StatusExit(c, ok, o)
    \/ \E c \in Conns, ok \in BOOLEAN, o \in ExecOutcomes : SigninExit(c, ok, o)
    \/ \E c \in Conns, s \in Streams : ChildWrite(c, s)
    \/ \E c \in Conns : ChildExit(c, TRUE)
    \/ \E c \in Conns, s \in Streams : CopyChunk(c, s)
    \/ \E c \in Conns, s \in Streams : CopyEnd(c, s)
    \/ \E c \in Conns : WaitReturns(c)
    \/ \E c \in Conns : WgDone(c)
    \/ \E c \in Conns : Panic(c)

Spec == Init /\ [][Next]_vars

\* the same with panics in the copying goroutines
FaultNext ==
    \/ Next
    \/ \E c \in Conns, s \in Streams : CopyPanic(c, s)

FaultSpec == Init /\ [][FaultNext]_vars

\* ------------------------------------------------- the socket life cycle
\* what the rest of the program keeps while an instance works on its socket
\* a frame that sets the global config to its zero value
SockFrameResetsConfig ==
    /\ config' = [AllowedCommands |-> <<>>, AllowedPrefixes |-> <<>>, Account |-> <<>>]
    /\ UNCHANGED <<snapshot, connVars, fnVars, umask, acceptpc>>
SockFrame == UNCHANGED <<config, snapshot, connVars, fnVars, umask, acceptpc>>

\* os.Stat(socketPath) returns no error: something is at the path
StatFoundNever(f) == FALSE
StatFound(f) == f.kind # "none"

\* the errors setupSocket returns
AlreadyExistsError == "Socket file already exists"
MkdirError == "failed to create socket directory"
ListenError == "failed to listen on socket"
ChmodError == "failed to set permissions on socket"

\* setupSocket returns err and main ends the process with log.Fatalf, which
\* runs no deferred call
Fail(i, err) ==
    /\ ierr' = [ierr EXCEPT ![i] = err]
    /\ ipc' = [ipc EXCEPT ![i] = "exited"]
    /\ ilog' = [ilog EXCEPT ![i] = @ \o <<"Failed to set up socket">>]

\* the mode of a socket file that bind creates
BoundMode(mask) == Mode0777 \ mask

\* listener.Close(): the first close of a Unix listener unlinks its path
ListenerClose(i, f) == IF listener[i] = "open" THEN NoFile ELSE f

\* os.Remove(socketPath): what is at the path afterwards
Remove(f) == NoFile

\* cleanupSocket: the file afterwards and the lines logged
cleanupSocketKeep(f) ==
    [file |-> f, lines |-> <<"Cleaning up and removing socket...">>]
cleanupSocket(f) ==
    [file |-> Remove(f),
     lines |-> <<"Cleaning up and removing socket...">>
               \o (IF f.kind = "none"
                   THEN <<"Failed to remove socket during cleanup">>
                   ELSE <<>>)]

\* where setupSocket goes when os.Chmod failed
ChmodFailedNextReturn == "returning"
ChmodFailedNext == "closing"

\* a server process is started: main calls setupSocket
Start(i) ==
    /\ ipc[i] = "off"
    /\ ipc' = [ipc EXCEPT ![i] = "stat"]
    /\ UNCHANGED <<fsFile, listener, sigpc, ierr, ilog>>
    /\ SockFrame

\* setupSocket: the check that nothing is at the path
Stat(i) ==
    /\ ipc[i] = "stat"
    /\ IF StatFound(fsFile)
       THEN Fail(i, AlreadyExistsError)
       ELSE /\ ipc' = [ipc EXCEPT ![i] = "mkdir"]
            /\ UNCHANGED <<ierr, ilog>>
    /\ UNCHANGED <<fsFile, listener, sigpc>>
    /\ SockFrame

\* setupSocket: os.MkdirAll of the socket's directory
MkdirAll(i, ok) ==
    /\ ipc[i] = "mkdir"
    /\ IF ok
       THEN /\ ipc' = [ipc EXCEPT ![i] = "listen"]
            /\ UNCHANGED <<ierr, ilog>>
       ELSE Fail(i, MkdirError)
    /\ UNCHANGED <<fsFile, listener, sigpc>>
    /\ SockFrame

\* setupSocket: net.Listen binds the path, which creates the socket file;
\* the bind fails when something is at the path
Listen(i, ok) ==
    /\ ipc[i] = "listen"
    /\ IF ok /\ fsFile.kind = "none"
       THEN /\ fsFile' = SocketFile(i, BoundMode(umask))
            /\ listener' = [listener EXCEPT ![i] = "open"]
            /\ ipc' = [ipc EXCEPT ![i] = "chmod"]
            /\ UNCHANGED <<ierr, ilog>>
       ELSE /\ Fail(i, ListenError)
            /\ UNCHANGED <<fsFile, listener>>
    /\ UNCHANGED sigpc
    /\ SockFrame

\* setupSocket: os.Chmod(socketPath, 0600); when it succeeds setupSocket
\* returns the listener and main starts the signal goroutine and the accept
\* loop (go startServer)
Chmod(i, ok) ==
    /\ ipc[i] = "chmod"
    /\ IF ok /\ fsFile.kind # "none"
       THEN /\ fsFile' = [fsFile EXCEPT !.mode = Mode0600]
            /\ ipc' = [ipc EXCEPT ![i] = "serving"]
            /\ sigpc' = [sigpc EXCEPT ![i] = "waiting"]
            /\ acceptpc' = [acceptpc EXCEPT ![i] = "accepting"]
            /\ ilog' = [ilog EXCEPT ![i] = @ \o <<"Server listening">>]
       ELSE /\ ipc' = [ipc EXCEPT ![i] = ChmodFailedNext]
            /\ UNCHANGED <<fsFile, sigpc, ilog, acceptpc>>
    /\ UNCHANGED <<listener, ierr>>
    /\ UNCHANGED <<config, snapshot, connVars, fnVars, umask>>

\* setupSocket after a failed os.Chmod: listener.Close()
ChmodFailedClose(i) ==
    /\ ipc[i] = "closing"
    /\ fsFile' = ListenerClose(i, fsFile)
    /\ listener' = [listener EXCEPT ![i] = "closed"]
    /\ ipc' = [ipc EXCEPT ![i] = "removing"]
    /\ UNCHANGED <<sigpc, ierr, ilog>>
    /\ SockFrame

\* setupSocket after a failed os.Chmod: os.Remove(socketPath)
ChmodFailedRemove(i) ==
    /\ ipc[i] = "removing"
    /\ fsFile' = Remove(fsFile)
    /\ ipc' = [ipc EXCEPT ![i] = "returning"]
    /\ UNCHANGED <<listener, sigpc, ierr, ilog>>
    /\ SockFrame

\* setupSocket after a failed os.Chmod: the error is returned
ChmodFailedReturn(i) ==
    /\ ipc[i] = "returning"
    /\ Fail(i, ChmodError)
    /\ UNCHANGED <<fsFile, listener, sigpc>>
    /\ SockFrame

\* the signal goroutine receives SIGINT or SIGTERM and cancels the context
Signal(i) ==
    /\ MainAlive(i)
    /\ sigpc[i] = "waiting"
    /\ sigpc' = [sigpc EXCEPT ![i] = "cancelled"]
    /\ ilog' = [ilog EXCEPT ![i] = @ \o <<"Shutting down server...">>]
    /\ UNCHANGED <<fsFile, listener, ipc, ierr>>
    /\ SockFrame

\* the signal goroutine closes the listener
SignalClose(i) ==
    /\ MainAlive(i)
    /\ sigpc[i] = "cancelled"
    /\ fsFile' = ListenerClose(i, fsFile)
    /\ listener' = [listener EXCEPT ![i] = "closed"]
    /\ sigpc' = [sigpc EXCEPT ![i] = "closed"]
    /\ UNCHANGED <<ipc, ierr, ilog>>
    /\ SockFrame

\* the signal goroutine calls cleanupSocket
SignalCleanup(i) ==
    /\ MainAlive(i)
    /\ sigpc[i] = "closed"
    /\ fsFile' = cleanupSocket(fsFile).file
    /\ ilog' = [ilog EXCEPT ![i] = @ \o cleanupSocket(fsFile).lines]
    /\ sigpc' = [sigpc EXCEPT ![i] = "done"]
    /\ UNCHANGED <<listener, ipc, ierr>>
    /\ SockFrame

\* main finds the context cancelled, logs and returns; its deferred
\* listener.Close() runs and the process ends, with it the signal goroutine
MainReturn(i) ==
    /\ ipc[i] = "serving"
    /\ sigpc[i] # "waiting"
    /\ fsFile' = ListenerClose(i, fsFile)
    /\ listener' = [listener EXCEPT ![i] = "closed"]
    /\ ilog' = [ilog EXCEPT ![i] = @ \o <<"Server shutdown completed">>]
    /\ ipc' = [ipc EXCEPT ![i] = "exited"]
    /\ UNCHANGED <<sigpc, ierr>>
    /\ SockFrame

\* main panics after setupSocket: its deferred calls run, cancel() and
\* listener.Close(); the recover function comes after them
MainPanic(i) ==
    /\ ipc[i] = "serving"
    /\ fsFile' = ListenerClose(i, fsFile)
    /\ listener' = [listener EXCEPT ![i] = "closed"]
    /\ ipc' = [ipc EXCEPT ![i] = "recovering"]
    /\ UNCHANGED <<sigpc, ierr, ilog>>
    /\ SockFrame

\* the recover function of main logs and calls cleanupSocket; main returns
\* and the process ends
MainRecover(i) ==
    /\ ipc[i] = "recovering"
    /\ fsFile' = cleanupSocket(fsFile).file
    /\ ilog' = [ilog EXCEPT ![i] =
                   @ \o <<"Recovered from panic in main">>
                     \o cleanupSocket(fsFile).lines]
    /\ ipc' = [ipc EXCEPT ![i] = "exited"]
    /\ UNCHANGED <<listener, sigpc, ierr>>
    /\ SockFrame

SocketInit ==
    /\ config \in {Policy(<< <<"a", " ", "b">> >>, << <<"b">> >>)}
    /\ snapshot \in Snapshots
    /\ ConnInit
    /\ fnIn = <<>>
    /\ fnOut = FALSE
    /\ fnDone = FALSE
    /\ umask \in Umasks
    /\ fsFile \in {NoFile, StaleFile}
    /\ listener = [i \in Instances |-> "none"]
    /\ ipc = [i \in Instances |-> "off"]
    /\ sigpc = [i \in Instances |-> "none"]
    /\ ierr = [i \in Instances |-> "none"]
    /\ ilog = [i \in Instances |-> <<>>]
    /\ acceptpc = [i \in Instances |-> "none"]

SocketNext ==
    \/ \E i \in Instances : Start(i)
    \/ \E i \in Instances : Stat(i)
    \/ \E i \in Instances, ok \in BOOLEAN : MkdirAll(i, ok)
    \/ \E i \in Instances, ok \in BOOLEAN : Listen(i, ok)
    \/ \E i \in Instances, ok \in BOOLEAN : Chmod(i, ok)
    \/ \E i \in Instances : ChmodFailedClose(i)
    \/ \E i \in Instances : ChmodFailedRemove(i)
    \/ \E i \in Instances : ChmodFailedReturn(i)
    \/ \E i \in Instances : Signal(i)
    \/ \E i \in Instances : SignalClose(i)
    \/ \E i \in Instances : SignalCleanup(i)
    \/ \E i \in Instances : MainReturn(i)
    \/ \E i \in Instances : MainPanic(i)
    \/ \E i \in Instances : MainRecover(i)

SocketSpec == SocketInit /\ [][SocketNext]_vars

\* the goroutines of a running server are scheduled: the signal goroutine
\* goes on after the signal and main returns once the context is cancelled
SocketFairness ==
    \A i \in Instances :
        /\ WF_vars(SignalClose(i))
        /\ WF_vars(SignalCleanup(i))
        /\ WF_vars(MainReturn(i))
        /\ WF_vars(MainRecover(i))

SocketFairSpec == SocketSpec /\ SocketFairness

\* --------------------------------------- shutdown while connections run
\* what peers send while the server is shut down: an allowed command and one
\* the policy does not have
ShutdownInputs == { <<"b", "\t", "a", "\n">>, <<"a", "\n">> }

ShutdownInit ==
    /\ config \in {Policy(<< <<"a", " ", "b">> >>, << <<"b">> >>)}
    /\ snapshot \in Snapshots
    /\ ConnInit
    /\ SockServing
    /\ fnIn = <<>>
    /\ fnOut = FALSE
    /\ fnDone = FALSE

ShutdownNext ==
    \/ \E c \in Conns, data \in ShutdownInputs : Accept(c, data)
    \/ \E c \in Conns : ReadRequest(c)
    \/ \E c \in Conns, ok \in BOOLEAN, o \in ExecOutcomes : StatusExit(c, ok, o)
    \/ \E c \in Conns, ok \in BOOLEAN, o \in ExecOutcomes : SigninExit(c, ok, o)
    \/ \E c \in Conns, s \in Streams : ChildWrite(c, s)
    \/ \E c \in Conns : ChildExit(c, TRUE)
    \/ \E c \in Conns, s \in Streams : CopyChunk(c, s)
    \/ \E c \in Conns, s \in Streams : CopyEnd(c, s)
    \/ \E c \in Conns : WaitReturns(c)
    \/ \E c \in Conns : WgDone(c)
    \/ \E i \in Instances : Signal(i)
    \/ \E i \in Instances : SignalClose(i)
    \/ \E i \in Instances : SignalCleanup(i)
    \/ \E i \in Instances : MainReturn(i)

ShutdownSpec == ShutdownInit /\ [][ShutdownNext]_vars

\* ------------------------------------------------------ the accept loop
\* ctx.Err() != nil in instance i: the signal goroutine has called cancel()
Cancelled(i) == sigpc[i] \in {"cancelled", "closed", "done"} \/ ipc[i] = "recovering"

\* the accept errors instance i has logged
AcceptErrorLine == "Error accepting connection"
AcceptErrors(i) == {k \in 1..Len(ilog[i]) : ilog[i][k] = AcceptErrorLine}

\* how many transient accept errors an instance meets
MaxAcceptErrors == 1

\* where the accept loop goes when listener.Accept() returned an error and
\* ctx.Err() is or is not nil: it returns on shutdown and accepts again
\* otherwise
AfterAcceptErrorReturn(cancelled) == "returned"
AfterAcceptError(cancelled) == IF cancelled THEN "returned" ELSE "accepting"

\* startServer: listener.Accept() returns an error, because the listener has
\* been closed or, with an open listener, because of a transient failure; the
\* loop returns when the context is cancelled, logs and goes on otherwise
AcceptReturnsError(i, transient) ==
    /\ ~crashed
    /\ MainAlive(i)
    /\ acceptpc[i] = "accepting"
    /\ IF transient THEN listener[i] = "open" ELSE listener[i] = "closed"
    /\ acceptpc' = [acceptpc EXCEPT ![i] = AfterAcceptError(Cancelled(i))]
    /\ IF Cancelled(i)
       THEN UNCHANGED ilog
       ELSE /\ Cardinality(AcceptErrors(i)) < MaxAcceptErrors
            /\ ilog' = [ilog EXCEPT ![i] = Append(@, AcceptErrorLine)]
    /\ UNCHANGED <<fsFile, listener, ipc, sigpc, ierr>>
    /\ UNCHANGED <<config, snapshot, connVars, fnVars, umask>>

AcceptNext ==
    \/ \E c \in FirstConn, data \in ShutdownInputs : Accept(c, data)
    \/ \E c \in FirstConn : ReadRequest(c)
    \/ \E c \in FirstConn, ok \in BOOLEAN, o \in ExecOutcomes : StatusExit(c, ok, o)
    \/ \E c \in FirstConn, ok \in BOOLEAN, o \in ExecOutcomes : SigninExit(c, ok, o)
    \/ \E c \in FirstConn, s \in Streams : ChildWrite(c, s)
    \/ \E c \in FirstConn : ChildExit(c, TRUE)
    \/ \E c \in FirstConn, s \in Streams : CopyChunk(c, s)
    \/ \E c \in FirstConn, s \in Streams : CopyEnd(c, s)
    \/ \E c \in FirstConn : WaitReturns(c)
    \/ \E c \in FirstConn : WgDone(c)
    \/ \E i \in Instances, transient \in BOOLEAN : AcceptReturnsError(i, transient)
    \/ \E i \in Instances : Signal(i)
    \/ \E i \in Instances : SignalClose(i)
    \/ \E i \in Instances : SignalCleanup(i)
    \/ \E i \in Instances : MainReturn(i)

\* the accept goroutine is scheduled: an Accept on a closed listener returns
AcceptFairness == \A i \in Instances : WF_vars(AcceptReturnsError(i, FALSE))

AcceptSpec == ShutdownInit /\ [][AcceptNext]_vars /\ AcceptFairness

\* ------------------------------------- one connection, any bytes from it
\* the bytes a peer sends before it stops sending: any text of up to
\* MaxLineLen characters, with or without newlines
MaxLineLen == 4
LineChars == {"a", "b", " ", "\n", "\r"}
PeerData == StringsUpTo(LineChars, MaxLineLen)

LineNext ==
    \/ \E c \in FirstConn : pc[c] = "idle" /\ \E data \in PeerData : Accept(c, data)
    \/ \E c \in FirstConn : ReadRequest(c)
    \/ \E c \in FirstConn, ok \in BOOLEAN, o \in ExecOutcomes : StatusExit(c, ok, o)
    \/ \E c \in FirstConn, ok \in BOOLEAN, o \in ExecOutcomes : SigninExit(c, ok, o)
    \/ \E c \in FirstConn, s \in Streams : ChildWrite(c, s)
    \/ \E c \in FirstConn, ok \in BOOLEAN : ChildExit(c, ok)
    \/ \E c \in FirstConn, s \in Streams : CopyChunk(c, s)
    \/ \E c \in FirstConn, s \in Streams : CopyEnd(c, s)
    \/ \E c \in FirstConn : WaitReturns(c)
    \/ \E c \in FirstConn : WgDone(c)

LineSpec == Init /\ [][LineNext]_vars

\* ---------------------------- one connection, requests with long tokens
\* the bytes a peer sends: up to MaxReqLen characters, among them the long run
\* and the account flag
MaxReqLen == 4
ReqChars == {"b", " ", "\n", LongRun, AccountOption}
Requests == StringsUpTo(ReqChars, MaxReqLen)

ArgNext ==
    \/ \E c \in FirstConn : pc[c] = "idle" /\ \E data \in Requests : Accept(c, data)
    \/ \E c \in FirstConn : ReadRequest(c)
    \/ \E c \in FirstConn, ok \in BOOLEAN, o \in ExecOutcomes : StatusExit(c, ok, o)
    \/ \E c \in FirstConn, ok \in BOOLEAN, o \in ExecOutcomes : SigninExit(c, ok, o)
    \/ \E c \in FirstConn, s \in Streams : ChildWrite(c, s)
    \/ \E c \in FirstConn, ok \in BOOLEAN : ChildExit(c, ok)
    \/ \E c \in FirstConn, s \in Streams : CopyChunk(c, s)
    \/ \E c \in FirstConn, s \in Streams : CopyEnd(c, s)
    \/ \E c \in FirstConn : WaitReturns(c)
    \/ \E c \in FirstConn : WgDone(c)

ArgSpec == Init /\ [][ArgNext]_vars

\* ------------------------------- a peer that hangs up during the relay
\* a child that writes more than a pipe holds blocks in its write until the
\* reader has taken what is in the pipe
BlockedOn(s) == IF s = "stdout" THEN "blocked on stdout" ELSE "blocked on stderr"

\* what the child has put into the pipe when the pipe is full
PipeFill(s) == IF s = "stdout" THEN "<op stdout, pipe full>" ELSE "<op stderr, pipe full>"

\* how many chunks the relay delivers before the child stops filling the pipe
MaxRelayed == 2

\* the child writes to stream s more than the pipe holds: the pipe is full
\* and the child blocks with the rest
ChildBlocks(c, s) ==
    /\ Running
    /\ child[c] = "running"
    /\ s \notin wrote[c]
    /\ pipe[c][s] = <<>>
    /\ wrote' = [wrote EXCEPT ![c] = @ \cup {s}]
    /\ pipe' = [pipe EXCEPT ![c][s] = <<PipeFill(s)>>]
    /\ child' = [child EXCEPT ![c] = BlockedOn(s)]
    /\ UNCHANGED <<config, snapshot, hungup, pc, sent, input, out, connClosed,
                   trace, spawns, pipesClosed, copier, exits, logs, crashed,
                   fnVars, sockVars>>

\* the reader has emptied the pipe: the blocked write goes on, and either
\* fills the pipe again or ends with the rest of the output in the pipe
ChildResumes(c, s, more) ==
    /\ Running
    /\ child[c] = BlockedOn(s)
    /\ pipe[c][s] = <<>>
    /\ ~pipesClosed[c]
    /\ IF more
       THEN /\ Len(out[c]) < MaxRelayed
            /\ pipe' = [pipe EXCEPT ![c][s] = <<PipeFill(s)>>]
            /\ UNCHANGED child
       ELSE /\ pipe' = [pipe EXCEPT ![c][s] = <<ChildOutput(s)>>]
            /\ child' = [child EXCEPT ![c] = "running"]
    /\ UNCHANGED <<config, snapshot, hungup, pc, sent, input, out, connClosed,
                   trace, spawns, wrote, pipesClosed, copier, exits, logs,
                   crashed, fnVars, sockVars>>

\* the peer closes its end of the connection while the child of its request
\* is still running: from now on writes to the connection fail
PeerClose(c) ==
    /\ Running
    /\ pc[c] = "Relaying"
    /\ ~ChildExited(c)
    /\ ~hungup[c]
    /\ hungup' = [hungup EXCEPT ![c] = TRUE]
    /\ UNCHANGED <<config, snapshot, pc, sent, input, out, connClosed, trace,
                   spawns, child, wrote, pipe, pipesClosed, copier, exits, logs,
                   crashed, fnVars, sockVars>>

\* the request of the peer: a command the policy allows
HangupInputs == { <<"b", "\n">> }

HangupNext ==
    \/ \E c \in FirstConn, data \in HangupInputs : Accept(c, data)
    \/ \E c \in FirstConn : ReadRequest(c)
    \/ \E c \in FirstConn, ok \in BOOLEAN, o \in ExecOutcomes : StatusExit(c, ok, o)
    \/ \E c \in FirstConn, ok \in BOOLEAN, o \in ExecOutcomes : SigninExit(c, ok, o)
    \/ \E c \in FirstConn, s \in Streams : ChildWrite(c, s)
    \/ \E c \in FirstConn, s \in Streams : ChildBlocks(c, s)
    \/ \E c \in FirstConn, s \in Streams, more \in BOOLEAN : ChildResumes(c, s, more)
    \/ \E c \in FirstConn, ok \in BOOLEAN : ChildExit(c, ok)
    \/ \E c \in FirstConn : PeerClose(c)
    \/ \E c \in FirstConn, s \in Streams : CopyChunk(c, s)
    \/ \E c \in FirstConn, s \in Streams : CopyEnd(c, s)
    \/ \E c \in FirstConn : WaitReturns(c)
    \/ \E c \in FirstConn : WgDone(c)

\* the goroutines of the handler and the subprocesses are scheduled: the
\* status check and the sign-in end, a child that is not blocked exits, a
\* blocked write goes on once the pipe has room, the copies and the waits
\* go on when they can
HangupFairness ==
    \A c \in FirstConn :
        /\ WF_vars(ReadRequest(c))
        /\ WF_vars(\E ok \in BOOLEAN, o \in ExecOutcomes : StatusExit(c, ok, o))
        /\ WF_vars(\E ok \in BOOLEAN, o \in ExecOutcomes : SigninExit(c, ok, o))
        /\ WF_vars(\E ok \in BOOLEAN : ChildExit(c, ok))
        /\ WF_vars(WaitReturns(c))
        /\ WF_vars(WgDone(c))
        /\ \A s \in Streams :
               /\ WF_vars(\E more \in BOOLEAN : ChildResumes(c, s, more))
               /\ WF_vars(CopyChunk(c, s))
               /\ WF_vars(CopyEnd(c, s))

HangupSpec == ShutdownInit /\ [][HangupNext]_vars /\ HangupFairness

\* ------------------------------------------------------------ the client
\* strings.Join(elems, sep)
RECURSIVE JoinNoSep(_, _)
JoinNoSep(elems, sep) ==
    IF elems = <<>> THEN <<>> ELSE Head(elems) \o JoinNoSep(Tail(elems), sep)

RECURSIVE Join(_, _)
Join(elems, sep) ==
    IF elems = <<>> THEN <<>>
    ELSE IF Len(elems) = 1 THEN Head(elems)
    ELSE Head(elems) \o sep \o Join(Tail(elems), sep)

\* what runClient sends: its arguments joined by a space, written with
\* fmt.Fprintln, which adds the newline
ClientLine(args) == Join(args, <<" ">>) \o <<"\n">>

\* the command lines the client is called with: one or two arguments of up
\* to MaxArgLen characters, empty ones and ones with a space among them
MaxArgLen == 2
ArgChars == {"a", "b", " "}
ClientArgs == StringsUpTo(ArgChars, MaxArgLen)

ClientArgLists ==
    {<<a>> : a \in ClientArgs} \cup {<<a, b>> : a \in ClientArgs, b \in ClientArgs}

\* runClient, called with the arguments fnIn, connects, sends its line and
\* reads to the end of the connection; the server accepts the connection
RunClient(c) == Accept(c, ClientLine(fnIn))

ClientInit ==
    /\ config \in {Policy(<< <<"a", " ", "b">> >>, << <<"b">> >>)}
    /\ snapshot \in {"part_000"}
    /\ ConnInit
    /\ SockServing
    /\ fnIn \in ClientArgLists
    /\ fnOut = FALSE
    /\ fnDone = FALSE

ClientNext ==
    \/ \E c \in FirstConn : RunClient(c)
    \/ \E c \in FirstConn : ReadRequest(c)
    \/ \E c \in FirstConn, ok \in BOOLEAN, o \in ExecOutcomes : StatusExit(c, ok, o)
    \/ \E c \in FirstConn, ok \in BOOLEAN, o \in ExecOutcomes : SigninExit(c, ok, o)
    \/ \E c \in FirstConn, s \in Streams : ChildWrite(c, s)
    \/ \E c \in FirstConn, ok \in BOOLEAN : ChildExit(c, ok)
    \/ \E c \in FirstConn, s \in Streams : CopyChunk(c, s)
    \/ \E c \in FirstConn, s \in Streams : CopyEnd(c, s)
    \/ \E c \in FirstConn : WaitReturns(c)
    \/ \E c \in FirstConn : WgDone(c)

ClientSpec == ClientInit /\ [][ClientNext]_vars

\* ------------------------------------- validateCommand applied on its own
\* policy entries are written with a letter and a blank; a list has at most
\* one entry of up to MaxEntryLen characters or two of at most one character
EntryChars == {"a", " "}
Entries == StringsUpTo(EntryChars, MaxEntryLen)
ShortEntries == StringsUpTo(EntryChars, 1)
EntryLists ==
    {<<>>} \cup {<<e>> : e \in Entries}
           \cup {<<e1, e2>> : e1 \in ShortEntries, e2 \in ShortEntries}

Policies == {Policy(ex, pr) : ex \in EntryLists, pr \in EntryLists}
Commands == StringsUpTo(Chars, MaxLen)

PolicyInit ==
    /\ config \in Policies
    /\ snapshot = "main.go"
    /\ ConnInit
    /\ SockServing
    /\ fnIn \in Commands
    /\ fnOut = FALSE
    /\ fnDone = FALSE

\* the call validateCommand(fnIn)
ValidateCall ==
    /\ ~fnDone
    /\ fnDone' = TRUE
    /\ fnOut' = validateCommand(fnIn)
    /\ UNCHANGED <<config, snapshot, connVars, fnIn, sockVars>>

PolicyNext == ValidateCall

PolicySpec == PolicyInit /\ [][PolicyNext]_vars

\* --------------------- from the request line to the argument vector
\* policies with one prefix entry of up to MaxPrefixLen characters and request
\* lines of up to MaxCmdLen characters, over a letter, the space and the
\* vertical tab
MaxPrefixLen == 3
MaxCmdLen == 4
PrefixChars == {"a", " ", VT}
PrefixPolicies == {Policy(<<>>, <<e>>) : e \in StringsUpTo(PrefixChars, MaxPrefixLen)}
PrefixCommands == StringsUpTo(PrefixChars, MaxCmdLen)

PrefixInit ==
    /\ config \in PrefixPolicies
    /\ snapshot \in Snapshots
    /\ ConnInit
    /\ SockServing
    /\ fnIn \in PrefixCommands
    /\ fnOut = FALSE
    /\ fnDone = FALSE

\* the peer connects and sends the line fnIn with its newline
SendLine(c) == Accept(c, fnIn \o <<"\n">>)

PrefixNext ==
    \/ \E c \in FirstConn : SendLine(c)
    \/ \E c \in FirstConn : ReadRequest(c)
    \/ \E c \in FirstConn, ok \in BOOLEAN, o \in ExecOutcomes : StatusExit(c, ok, o)
    \/ \E c \in FirstConn, ok \in BOOLEAN, o \in ExecOutcomes : SigninExit(c, ok, o)
    \/ \E c \in FirstConn, s \in Streams : ChildWrite(c, s)
    \/ \E c \in FirstConn : ChildExit(c, TRUE)
    \/ \E c \in FirstConn, s \in Streams : CopyChunk(c, s)
    \/ \E c \in FirstConn, s \in Streams : CopyEnd(c, s)
    \/ \E c \in FirstConn : WaitReturns(c)
    \/ \E c \in FirstConn : WgDone(c)

PrefixSpec == PrefixInit /\ [][PrefixNext]_vars

\* ======================================================================
\* Properties
\* ======================================================================
\* The vocabulary of the specification, stated without the operators above.
InList(x, list) == \E i \in 1..Len(list) : list[i] = x

IsLiteralPrefix(p, s) == Len(p) <= Len(s) /\ \A i \in 1..Len(p) : s[i] = p[i]

AllBlank(s) == \A i \in 1..Len(s) : s[i] \in WhiteSpace

NoOuterSpace(s) == s = <<>> \/ (s[1] \notin WhiteSpace /\ s[Len(s)] \notin WhiteSpace)

\* the strings t with s = w1 \o t \o w2 for blank strings w1 and w2
Unpadded(s) ==
    {SubSeq(s, ij[1], ij[2]) :
        ij \in {x \in (1..(Len(s) + 1)) \X (0..Len(s)) :
                   /\ x[2] >= x[1] - 1
                   /\ AllBlank(SubSeq(s, 1, x[1] - 1))
                   /\ AllBlank(SubSeq(s, x[2] + 1, Len(s)))}}

\* the request line without its outer white space
Trimmed(s) == {t \in Unpadded(s) : NoOuterSpace(t)}

ExactMatch(s) == InList(s, config.AllowedCommands)
PrefixMatch(s) ==
    \E i \in 1..Len(config.AllowedPrefixes) : IsLiteralPrefix(config.AllowedPrefixes[i], s)

\* "allowed" of the data model, for a trimmed request
PolicyAllows(s) == ExactMatch(s) \/ PrefixMatch(s)

Has(c, event) == \E i \in 1..Len(trace[c]) : trace[c][i] = event

HasSpawned(c, kind) == \E i \in 1..Len(spawns[c]) : spawns[c][i].kind = kind

\* ---------------------------------------------------------------- C1
\* C1: for a connection whose trimmed request line the policy does not allow,
\* no subprocess (status check, sign-in or command) is ever started, whatever
\* the other connections do.
C1_NoSpawnWhenDisallowed ==
    \A c \in Conns :
        (pc[c] \notin {"idle", "ReadingRequest"} /\ ~PolicyAllows(input[c]))
            => spawns[c] = <<>>

\* a rejected connection next to one whose command is running
C1_Witness ==
    \E c \in Conns, d \in Conns :
        /\ Has(c, "rejected") /\ ~PolicyAllows(input[c]) /\ spawns[c] = <<>>
        /\ HasSpawned(d, "command") /\ child[d] = "running"

\* ---------------------------------------------------------------- C2
\* C2 as stated: every c in exactCommands is allowed, and every c that is not
\* in exactCommands and has no prefix entry as a prefix is not allowed, for
\* every command string c, trimmed or not.
C2_AsStated ==
    fnDone =>
        /\ ExactMatch(fnIn) => fnOut
        /\ (~ExactMatch(fnIn) /\ ~PrefixMatch(fnIn)) => ~fnOut

\* C2 amended: the same about the command without its outer white space: c
\* is allowed when trimmed c is in exactCommands, and is not allowed when
\* trimmed c is not in exactCommands and no prefix entry is a prefix of it.
C2_ExactOnTrimmed ==
    fnDone =>
        \A t \in Trimmed(fnIn) :
            /\ ExactMatch(t) => fnOut
            /\ (~ExactMatch(t) /\ ~PrefixMatch(t)) => ~fnOut

\* an exact entry with an inner blank, matched by a padded command
C2_Witness ==
    /\ fnDone /\ fnOut
    /\ config.AllowedCommands = << <<"a", " ", "a">> >>
    /\ config.AllowedPrefixes = <<>>
    /\ fnIn = <<"a", " ", "a">>

\* ---------------------------------------------------------------- C3
\* C3 as stated: whenever a prefix entry p is a literal prefix of c, c is
\* allowed, whatever follows p, for every command string c, trimmed or not.
C3_AsStated == fnDone => (PrefixMatch(fnIn) => fnOut)

\* C3 amended: whenever a prefix entry p is a literal prefix of the command
\* without its outer white space, the command is allowed, whatever follows p.
C3_PrefixOnTrimmed ==
    fnDone => \A t \in Trimmed(fnIn) : PrefixMatch(t) => fnOut

\* a prefix entry followed by more text, no exact entry
C3_Witness ==
    /\ fnDone /\ fnOut
    /\ config.AllowedCommands = <<>>
    /\ config.AllowedPrefixes = << <<"a", " ">> >>
    /\ fnIn = <<"a", " ", "b">>

\* ---------------------------------------------------------------- C4
\* C4: white space around the line never changes the outcome (the outcome for
\* w1 c w2 is the outcome for c, w1 and w2 blank), and white space inside is
\* significant: a command that has the tokens of the policy's only entry, an
\* exact one, but is not that entry, is not allowed.
C4_OuterSpaceIgnoredInnerKept ==
    fnDone =>
        /\ \A t \in Unpadded(fnIn) : fnOut = validateCommand(t)
        /\ \A e \in Entries :
               ( /\ config.AllowedCommands = <<e>>
                 /\ config.AllowedPrefixes = <<>>
                 /\ Fields(fnIn) = Fields(e)
                 /\ \A t \in Trimmed(fnIn) : t # e )
               => ~fnOut

\* a padded command allowed because its core is an exact entry
C4_Witness ==
    /\ fnDone /\ fnOut
    /\ config.AllowedCommands = << <<"a">> >>
    /\ config.AllowedPrefixes = <<>>
    /\ fnIn = <<"\t", "a", " ">>

\* a command differing from the exact entry in inner white space only
C4_InnerWitness ==
    /\ fnDone /\ ~fnOut
    /\ config.AllowedCommands = << <<"a", " ", "a">> >>
    /\ config.AllowedPrefixes = <<>>
    /\ fnIn = <<"a", "\t", "a">>

\* ---------------------------------------------------------------- C5
\* C5: with an empty policy every request is refused: every connection that
\* delivered a request line ends rejected, and no subprocess is started.
EmptyPolicy == config.AllowedCommands = <<>> /\ config.AllowedPrefixes = <<>>

C5_EmptyPolicyAllowsNothing ==
    EmptyPolicy =>
        \A c \in Conns :
            /\ spawns[c] = <<>>
            /\ child[c] = "none"
            /\ Has(c, "read") => (Has(c, "rejected") /\ pc[c] = "Closed")

\* under the empty policy, the command that the other policy has is rejected
C5_Witness ==
    /\ EmptyPolicy
    /\ \E c \in Conns :
           /\ input[c] = <<"a", " ", "b">>
           /\ Has(c, "rejected")
           /\ pc[c] = "Closed"

\* ---------------------------------------------------------------- C6
\* C6: a rejected request gets exactly "Error: Command not allowed: ", its
\* trimmed line and a newline, nothing else, and the connection is closed;
\* two rejected requests with the same bytes get the same text, whatever
\* else the server has done.
C6_RejectionText ==
    /\ \A c \in Conns :
           Has(c, "rejected") =>
               /\ NoOuterSpace(input[c])
               /\ out[c] = <<"Error: Command not allowed: ">> \o input[c] \o <<"\n">>
               /\ connClosed[c]
    /\ \A c \in Conns, d \in Conns :
           (Has(c, "rejected") /\ Has(d, "rejected") /\ sent[c] = sent[d])
               => out[c] = out[d]

\* the same command rejected twice
C6_Witness ==
    \E c \in Conns, d \in Conns :
        /\ c # d
        /\ Has(c, "rejected") /\ Has(d, "rejected")
        /\ sent[c] = sent[d]
        /\ input[c] = <<"a">>
        /\ Len(out[c]) = 3

\* ---------------------------------------------------------------- C7
\* the tokens of a line: its maximal runs of characters that are not white
\* space, in order
RunStarts(s) ==
    {i \in 1..Len(s) : s[i] \notin WhiteSpace /\ (i = 1 \/ s[i - 1] \in WhiteSpace)}
RunEnd(s, i) ==
    CHOOSE j \in i..Len(s) :
        /\ \A m \in i..j : s[m] \notin WhiteSpace
        /\ j = Len(s) \/ s[j + 1] \in WhiteSpace
NthStart(s, k) ==
    CHOOSE i \in RunStarts(s) : Cardinality({j \in RunStarts(s) : j < i}) = k - 1
WhitespaceSplit(s) ==
    [k \in 1..Cardinality(RunStarts(s)) |->
        SubSeq(s, NthStart(s, k), RunEnd(s, NthStart(s, k)))]

\* C7: the command subprocess gets the arguments "--account", the account and
\* then the tokens of the trimmed request, and it is started only for a
\* request that passed the policy check.
C7_ArgumentVector ==
    \A c \in Conns :
        \A i \in 1..Len(spawns[c]) :
            spawns[c][i].kind = "command" =>
                /\ spawns[c][i].argv =
                       << <<"--account">>, <<"acct">> >> \o WhitespaceSplit(input[c])
                /\ Has(c, "validate")
                /\ PolicyAllows(input[c])

\* the command "b<TAB>a", allowed by the prefix "b", run with four arguments
C7_Witness ==
    \E c \in Conns :
        /\ input[c] = <<"b", "\t", "a">>
        /\ \E i \in 1..Len(spawns[c]) :
               /\ spawns[c][i].kind = "command"
               /\ spawns[c][i].argv = << <<"--account">>, <<"acct">>, <<"b">>, <<"a">> >>

\* ---------------------------------------------------------------- C8
IsPrefixSeq(t, p) == Len(t) <= Len(p) /\ \A i \in 1..Len(t) : t[i] = p[i]

\* the paths of a connection that does not panic
Paths ==
    { <<"read_failed", "close">>,
      <<"read", "rejected", "close">>,
      <<"read", "validate", "auth_failed", "close">>,
      <<"read", "validate", "authenticate", "pipe_failed", "close">>,
      <<"read", "validate", "authenticate", "spawn_failed", "close">>,
      <<"read", "validate", "authenticate", "execute", "relay", "close">> }

\* C8: the steps of a connection come in the order read, validate,
\* authenticate, execute, relay, close: the command is started only after
\* the validation and the authentication succeeded, and the connection is
\* closed only after the step before it has finished (the relay, after a
\* command was started).
C8_StepOrder ==
    \A c \in Conns :
        ~Has(c, "panic") =>
            /\ \E p \in Paths : IsPrefixSeq(trace[c], p)
            /\ HasSpawned(c, "command") =>
                   IsPrefixSeq(<<"read", "validate", "authenticate", "execute">>, trace[c])

\* the part of C8 about the start of the command, which holds
C8_SpawnAfterAuth ==
    \A c \in Conns :
        HasSpawned(c, "command") =>
            IsPrefixSeq(<<"read", "validate", "authenticate", "execute">>, trace[c])

\* ---------------------------------------------------------------- C9
Delivered(c, s) == \E i \in 1..Len(out[c]) : out[c][i] = ChildOutput(s)

\* C9: the connection is not closed, and the relay does not return, before
\* both copies are over and everything the child wrote on either stream has
\* been written to the connection.
C9_NoTruncatedOutput ==
    \A c \in Conns :
        (HasSpawned(c, "command") /\ ~Has(c, "panic")
            /\ (connClosed[c] \/ pc[c] = "Closed"))
        => /\ \A s \in Streams : copier[c][s] = "done"
           /\ \A s \in wrote[c] : Delivered(c, s)

\* --------------------------------------------------------------- C10
\* C10: when handleConnection has returned, on whichever path (read failure,
\* rejection, authentication failure, pipe or spawn failure, end of the
\* relay, panic), the connection has been closed.
C10_AlwaysClosed ==
    \A c \in Conns : pc[c] = "Closed" => connClosed[c]

\* one handler ended by a panic, the other by a failure to start the child
C10_Witness ==
    \E c \in Conns, d \in Conns :
        /\ pc[c] = "Closed" /\ Has(c, "panic")
        /\ pc[d] = "Closed" /\ Has(d, "spawn_failed")

\* --------------------------------------------------------------- C11
NewlinesIn(text) == {i \in 1..Len(text) : text[i] = "\n"}

\* C11: when ensureLoggedIn fails, the server writes exactly one line, which
\* starts with "Error:" and says that the sign-in failed, closes the
\* connection and never starts the command for that connection.
C11_AuthFailedLine ==
    \A c \in Conns :
        Has(c, "auth_failed") =>
            /\ Len(out[c]) >= 2
            /\ out[c][1] = "Error: Could not sign in to 1Password: "
            /\ NewlinesIn(out[c]) = {Len(out[c])}
            /\ connClosed[c] /\ pc[c] = "Closed"
            /\ ~HasSpawned(c, "command")
            /\ child[c] = "none"

\* a connection whose status check and sign-in both failed
C11_Witness ==
    \E c \in Conns :
        /\ Has(c, "auth_failed")
        /\ exits[c] = <<"nonzero", "nonzero">>
        /\ input[c] = <<"a", " ", "b">>
        /\ Len(out[c]) = 4

\* --------------------------------------------------------------- C12
\* C12: when the status check and the sign-in both failed, the line written
\* to the connection carries what the sign-in printed (its combined output).
C12_OutputInErrorLine ==
    \A c \in Conns :
        Has(c, "auth_failed") =>
            \E i \in 1..Len(out[c]) : out[c][i] = "<op signin output>"

\* what holds instead: the captured output goes to the server's log only
C12_OutputOnlyLogged ==
    \A c \in Conns :
        Has(c, "auth_failed") =>
            /\ \E i \in 1..Len(logs[c]) : logs[c][i] = "<op signin output>"
            /\ \A i \in 1..Len(out[c]) : out[c][i] # "<op signin output>"

\* --------------------------------------------------------------- C13
KindsOf(c) == [i \in 1..Len(spawns[c]) |-> spawns[c][i].kind]

\* C13: ensureLoggedIn checks the status first; the sign-in is started if and
\* only if the status check did not exit with zero; it returns success
\* exactly after a zero status or a successful sign-in, and an error exactly
\* after a failed sign-in.
C13_EnsureLoggedInMachine ==
    \A c \in Conns :
        /\ HasSpawned(c, "signin") <=> (Len(exits[c]) >= 1 /\ exits[c][1] = "nonzero")
        /\ HasSpawned(c, "signin") => SubSeq(KindsOf(c), 1, 2) = <<"status", "signin">>
        /\ Has(c, "authenticate") <=>
               exits[c] \in {<<"zero">>, <<"nonzero", "zero">>}
        /\ Has(c, "auth_failed") <=> exits[c] = <<"nonzero", "nonzero">>
        /\ Len(exits[c]) <= 2

\* a connection signed in after a failed status check, its command running
C13_Witness ==
    \E c \in Conns :
        /\ exits[c] = <<"nonzero", "zero">>
        /\ KindsOf(c) = <<"status", "signin", "command">>
        /\ Has(c, "authenticate")

\* --------------------------------------------------------------- C14
StatusChecks(c) == {i \in 1..Len(spawns[c]) : spawns[c][i].kind = "status"}

\* C14: nothing of the authentication is kept between requests: every
\* request that passed the policy check has its own status check, started
\* before its command, also when the same request was served before or is
\* being served on another connection.
C14_StatusCheckPerRequest ==
    \A c \in Conns :
        /\ Has(c, "validate") => StatusChecks(c) = {1}
        /\ ~Has(c, "validate") => StatusChecks(c) = {}

\* the same allowed request on both connections, the first one already
\* authenticated and answered, the second with a status check of its own
C14_Witness ==
    \E c \in Conns, d \in Conns :
        /\ c # d
        /\ sent[c] = sent[d]
        /\ pc[c] = "Closed" /\ Has(c, "authenticate") /\ HasSpawned(c, "command")
        /\ StatusChecks(d) = {1} /\ HasSpawned(d, "command")
        /\ trace[d] = <<"read", "validate", "authenticate", "execute">>

\* --------------------------------------------------------------- C15
ExecFailed(c) == Has(c, "spawn_failed") \/ Has(c, "pipe_failed")

\* C15: when a pipe cannot be created or the tool cannot be started, the
\* step that meets the failure writes the one line "Error: <cause>" and a
\* newline, closes the connection, starts no command, and touches nothing of
\* the other connections or of the server, which goes on serving.
C15_SpawnErrorContained ==
    [][\A c \in Conns :
          (~ExecFailed(c) /\ ExecFailed(c)') =>
              /\ \E cause \in ExecOutcomes \ {"started"} :
                     out'[c] = <<"Error: ", cause, "\n">>
              /\ connClosed'[c] /\ pc'[c] = "Closed"
              /\ ~HasSpawned(c, "command")'
              /\ ~crashed'
              /\ \A d \in Conns \ {c} :
                     /\ pc'[d] = pc[d] /\ out'[d] = out[d]
                     /\ connClosed'[d] = connClosed[d]
                     /\ spawns'[d] = spawns[d] /\ child'[d] = child[d]]_vars

\* a connection that could not start the tool, and a later one served
C15_Witness ==
    \E c \in Conns, d \in Conns :
        /\ c < d
        /\ Has(c, "spawn_failed") /\ pc[c] = "Closed"
        /\ out[c] = <<"Error: ", "start error", "\n">>
        /\ HasSpawned(d, "command") /\ Has(d, "relay") /\ pc[d] = "Closed"

\* --------------------------------------------------------------- C16
\* C16: a panic at any step of the servicing of a connection is recovered at
\* the handler, logged, and turned into a close of that connection; the
\* server process never dies of it.
C16_PanicNeverKillsServer ==
    /\ Running
    /\ \A c \in Conns :
           Has(c, "panic") =>
               /\ connClosed[c]
               /\ \E i \in 1..Len(logs[c]) :
                      logs[c][i] = "Recovered from panic in connection handler"

\* the part of C16 that holds: a panic in the handler goroutine itself
C16_HandlerPanicRecovered ==
    \A c \in Conns :
        Has(c, "panic") =>
            /\ connClosed[c]
            /\ \E i \in 1..Len(logs[c]) :
                   logs[c][i] = "Recovered from panic in connection handler"


\* ---------------------------------------------------------------- C17
\* the socket file is the socket of instance i
Owns(i) == fsFile.kind = "socket" /\ fsFile.owner = i

\* C17: whenever setupSocket finds a file at the socket path it fails with
\* the already-exists error, and the step changes neither the file nor any
\* listener nor any other instance: a second instance started on the path of
\* a live one fails and leaves that socket as it was, still serving.
C17_ExistingFileRefused ==
    [][\A i \in Instances :
          (ipc[i] = "stat" /\ ipc'[i] # "stat" /\ fsFile.kind # "none") =>
              /\ ipc'[i] = "exited"
              /\ ierr'[i] = AlreadyExistsError
              /\ fsFile' = fsFile
              /\ listener' = listener
              /\ listener[i] = "none"
              /\ \A j \in Instances \ {i} :
                     ipc'[j] = ipc[j] /\ sigpc'[j] = sigpc[j]]_vars

\* a second instance has failed on the path of a live one, which still
\* serves on its socket
C17_Witness ==
    \E i \in Instances, j \in Instances :
        /\ i # j
        /\ ipc[i] = "serving" /\ listener[i] = "open"
        /\ fsFile = SocketFile(i, Mode0600)
        /\ ipc[j] = "exited" /\ ierr[j] = AlreadyExistsError
        /\ listener[j] = "none"

\* ---------------------------------------------------------------- C18
\* C18: an instance whose setupSocket returned an error has no open listener
\* and no socket file of its own at the path; after a failed permission
\* change its listener has been closed.
C18_NoSocketLeftOnError ==
    \A i \in Instances :
        ierr[i] # "none" =>
            /\ listener[i] # "open"
            /\ ~Owns(i)
            /\ ierr[i] = ChmodError => listener[i] = "closed"

\* setupSocket has returned the permission error
C18_Witness ==
    \E i \in Instances :
        /\ ierr[i] = ChmodError
        /\ ipc[i] = "exited"
        /\ listener[i] = "closed"
        /\ fsFile = NoFile

\* ---------------------------------------------------------------- C19
\* C19: whenever the socket file exists and its listener is open, so that a
\* client can connect, its permission bits are owner read and write only.
C19_SocketAlways0600 ==
    \A i \in Instances :
        (Owns(i) /\ listener[i] = "open") => fsFile.mode = Mode0600

\* what the code does keep: the socket of an instance whose setupSocket has
\* returned without error, while nothing has replaced it, is 0600
C19_ServingSocket0600 ==
    \A i \in Instances :
        (Owns(i) /\ ipc[i] = "serving") => fsFile.mode = Mode0600

\* ---------------------------------------------------------------- C20
CleanupLine == "Cleaning up and removing socket..."
CleanupFailedLine == "Failed to remove socket during cleanup"

\* the positions of the cleanupSocket calls in the log of instance i
Cleanups(i) == {k \in 1..Len(ilog[i]) : ilog[i][k] = CleanupLine}

\* C20: every call of cleanupSocket leaves no file at the socket path,
\* whether or not one was there; when none was there it logs the failure and
\* its caller goes on as after a removal: the signal goroutine finishes, main
\* returns, and no error is set.
C20_CleanupIdempotent ==
    [][\A i \in Instances :
          Cardinality(Cleanups(i)') > Cardinality(Cleanups(i)) =>
              /\ fsFile' = NoFile
              /\ ierr' = ierr
              /\ sigpc'[i] = "done" \/ ipc'[i] = "exited"
              /\ fsFile.kind = "none" =>
                     ilog'[i][Len(ilog'[i])] = CleanupFailedLine]_vars

\* an instance has torn its socket down twice, the second time finding the
\* file gone, and has ended normally with no file at the path
C20_Witness ==
    \E i \in Instances :
        /\ Cardinality(Cleanups(i)) = 2
        /\ ilog[i][Len(ilog[i])] = CleanupFailedLine
        /\ ipc[i] = "exited" /\ ierr[i] = "none"
        /\ fsFile = NoFile

\* a cleanupSocket call has removed a file that was at the path
C20_RemovedWitness ==
    \E i \in Instances :
        /\ Cardinality(Cleanups(i)) = 1
        /\ ilog[i][Len(ilog[i])] = CleanupLine
        /\ fsFile = NoFile


\* ---------------------------------------------------------------- C21
\* connection c is accepted in this step
Accepted(c) == pc[c] = "idle" /\ pc'[c] # "idle"

\* C21: once the signal goroutine has received the termination signal, no
\* connection is accepted any more (and the socket file is removed).
C21_NoAcceptAfterSignal ==
    [][\A c \in Conns :
          Accepted(c) =>
              \A i \in Instances : ipc[i] = "serving" => sigpc[i] = "waiting"]_vars

\* what the code does keep: no connection is accepted once the signal
\* goroutine or main has closed the listener
C21_NoAcceptAfterClose ==
    [][\A c \in Conns :
          Accepted(c) =>
              \E i \in Instances : ipc[i] = "serving" /\ listener[i] = "open"]_vars

\* and after the signal the socket of the instance is eventually gone
C21_SocketEventuallyRemoved ==
    \A i \in Instances : (sigpc[i] = "cancelled") ~> ~Owns(i)

\* ---------------------------------------------------------------- C22
\* the server process has ended after serving
ProcessExited == \E i \in Instances : ipc[i] = "exited" /\ sigpc[i] # "none"

\* C22: shutdown lets a relaying connection drain: the process does not end
\* while a connection is still relaying, so that the connection delivers the
\* child's output and reaches Closed.
C22_RelayingDrains ==
    \A c \in Conns : ProcessExited => pc[c] \notin {"Relaying", "WgWait"}


\* ---------------------------------------------------------------- C23
\* the handler of c is blocked in a call that has not returned: the status
\* check, the sign-in or the wait for the command
Blocked(c) ==
    \/ pc[c] \in {"CheckingStatus", "SigningIn"}
    \/ pc[c] = "Relaying" /\ child[c] = "running"

\* C23: as long as the listener is open the next connection can be accepted,
\* whatever the handlers of the earlier connections are doing, and its
\* request can be read and validated while they are blocked.
C23_AcceptNeverBlocked ==
    \A c \in Conns :
        /\ (Running /\ Listening /\ pc[c] = "idle"
                /\ \A d \in Conns : d < c => pc[d] # "idle")
               => \A data \in ClientInputs : ENABLED Accept(c, data)
        /\ (Running /\ pc[c] = "ReadingRequest") => ENABLED ReadRequest(c)

\* while the handler of an earlier connection is still blocked, a later
\* connection has been served to the end
C23_Witness ==
    \E c \in Conns, d \in Conns :
        /\ c < d
        /\ Blocked(c)
        /\ pc[d] = "Closed" /\ connClosed[d]
        /\ Has(d, "relay") /\ out[d] # <<>>


\* ---------------------------------------------------------------- C24
\* the handler of c has got past its read of the request
PastRead(c) == pc[c] \notin {"idle", "ReadingRequest"}

\* the handler of c has closed the connection having written and spawned
\* nothing
ClosedSilently(c) ==
    pc[c] = "Closed" /\ connClosed[c] /\ out[c] = <<>> /\ spawns[c] = <<>>

\* C24: when the peer stops sending without having sent a newline, whether
\* it sent nothing or some bytes, the connection is closed with no response
\* written and no subprocess spawned.
C24_NoLineNoResponse ==
    \A c \in Conns :
        (PastRead(c) /\ NewlineAt(sent[c]) = {}) => ClosedSilently(c)

\* what the code does keep: when the peer sent nothing at all the connection
\* is closed with no response and no subprocess
C24_NothingSentNoResponse ==
    \A c \in Conns : (PastRead(c) /\ sent[c] = <<>>) => ClosedSilently(c)

\* an unterminated request has been taken for a line and its command spawned
C24_UnterminatedExecuted ==
    \E c \in Conns :
        NewlineAt(sent[c]) = {} /\ sent[c] # <<>> /\ HasSpawned(c, "command")


\* ---------------------------------------------------------------- C25
\* how often event e is in the history of c
Count(c, e) == Cardinality({k \in 1..Len(trace[c]) : trace[c][k] = e})

\* the command subprocesses spawned for c
CommandSpawns(c) == {k \in 1..Len(spawns[c]) : spawns[c][k].kind = "command"}

\* what the peer sent before its first newline
FirstLineOf(data) ==
    SubSeq(data, 1, (CHOOSE k \in NewlineAt(data) :
                         \A j \in NewlineAt(data) : k <= j) - 1)

\* C25: on one connection at most one line is read and validated, the first
\* one, and at most one command subprocess is spawned, built from that line,
\* whatever the peer sends after it.
C25_OneRequestPerConnection ==
    \A c \in Conns :
        /\ Count(c, "read") <= 1
        /\ Count(c, "validate") + Count(c, "rejected") <= 1
        /\ Cardinality(CommandSpawns(c)) <= 1
        /\ (Has(c, "read") /\ NewlineAt(sent[c]) # {}) =>
               input[c] = TrimSpace(FirstLineOf(sent[c]))
        /\ \A k \in CommandSpawns(c) :
               spawns[c][k].argv = CommandArgs(TrimSpace(ScanText(sent[c])))

\* the peer sent two allowed lines; the connection is closed after one
\* command, that of the first line
C25_Witness ==
    \E c \in Conns :
        /\ sent[c] = <<"b", "\n", "b", "a">>
        /\ pc[c] = "Closed"
        /\ Cardinality(CommandSpawns(c)) = 1
        /\ \A k \in CommandSpawns(c) :
               spawns[c][k].argv = <<Str("--account"), config.Account, <<"b">> >>

\* the first line was not allowed and the second would have been: nothing is
\* spawned
C25_SecondLineIgnored ==
    \E c \in Conns :
        /\ sent[c] = <<"a", "\n", "b", "\n">>
        /\ pc[c] = "Closed"
        /\ Has(c, "rejected")
        /\ spawns[c] = <<>>


\* ---------------------------------------------------------------- C26
\* everything the server keeps about connection c
ConnState(c) ==
    <<pc[c], sent[c], input[c], out[c], connClosed[c], trace[c], spawns[c],
      child[c], wrote[c], pipe[c], pipesClosed[c], copier[c], exits[c], logs[c]>>

\* C26: whatever happened on the other connections, a request that was read
\* is validated and goes on exactly when the policy allows its own trimmed
\* line and is rejected exactly when it does not; and a step that works on
\* one connection leaves the state of every other connection as it is.
C26_RequestsIndependent ==
    [][/\ \A c \in Conns :
             Has(c, "read")' =>
                 /\ Has(c, "validate")' <=> PolicyAllows(TrimSpace(ScanText(sent[c])))
                 /\ Has(c, "rejected")' <=> ~PolicyAllows(TrimSpace(ScanText(sent[c])))
       /\ \A c \in Conns, d \in Conns :
             (c # d /\ ConnState(d)' # ConnState(d))
                 => ConnState(c)' = ConnState(c)]_vars

\* after a rejected request on an earlier connection, an allowed request on
\* a later one has been executed and answered with the tool's output, and a
\* further disallowed one would still be rejected
C26_Witness ==
    \E c \in Conns, d \in Conns :
        /\ c < d
        /\ Has(c, "rejected") /\ pc[c] = "Closed"
        /\ PolicyAllows(input[d])
        /\ pc[d] = "Closed" /\ Has(d, "relay")
        /\ Delivered(d, "stdout") /\ Delivered(d, "stderr")

\* the other order: an allowed request was executed first, a disallowed one
\* on a later connection is rejected
C26_RejectedAfterAllowed ==
    \E c \in Conns, d \in Conns :
        /\ c < d
        /\ pc[c] = "Closed" /\ Has(c, "relay")
        /\ Has(d, "rejected") /\ ~PolicyAllows(input[d])


\* ---------------------------------------------------------------- C27
\* the handler of c comes back from opCmd.Wait in this step
WaitReturned(c) == pc[c] = "Relaying" /\ ChildExited(c) /\ pc'[c] # "Relaying"

\* what the server itself writes to connections
ServerTexts == {"Error: ", "Error: Command not allowed: ",
                "Error: Could not sign in to 1Password: "}

\* C27: when the command has ended with a status other than zero, the handler
\* comes back from the wait as it does after status zero: it writes nothing
\* to the connection and goes on to the close; the connection never carries
\* a line of the server for the failed command and ends closed.
C27_ExitStatusNotEscalated ==
    [][\A c \in Conns :
          /\ WaitReturned(c) =>
                 /\ out'[c] = out[c]
                 /\ pc'[c] = IF HasWaitGroup THEN "WgWait" ELSE "Closed"
          /\ child'[c] = "failed" =>
                 /\ \A k \in 1..Len(out'[c]) : out'[c][k] \notin ServerTexts
                 /\ pc'[c] = "Closed" => connClosed'[c]]_vars

\* a command ended with a status other than zero: the connection is closed,
\* carries what the child wrote, and the failure is only logged
C27_Witness ==
    \E c \in Conns :
        /\ child[c] = "failed"
        /\ pc[c] = "Closed" /\ connClosed[c]
        /\ Delivered(c, "stderr")
        /\ \E k \in 1..Len(logs[c]) : logs[c][k] = "Command execution error"

\* ---------------------------------------------------------------- C28
\* C28: once the command has been started, the connection carries nothing
\* but what the child wrote on its stdout and stderr, each chunk once.
C28_NoFraming ==
    \A c \in Conns :
        Has(c, "execute") =>
            /\ \A k \in 1..Len(out[c]) :
                   \E s \in wrote[c] : out[c][k] = ChildOutput(s)
            /\ Len(out[c]) <= Cardinality(wrote[c])

\* a connection closed after the relay with both outputs of the child and
\* nothing else on it
C28_Witness ==
    \E c \in Conns :
        /\ pc[c] = "Closed" /\ Has(c, "relay")
        /\ Len(out[c]) = Cardinality(Streams)
        /\ \A s \in Streams : Delivered(c, s)


\* ---------------------------------------------------------------- C29
\* the handler of c is inside ensureLoggedIn
InAuth(c) == pc[c] \in {"CheckingStatus", "SigningIn"}

\* C29: while one connection is inside ensureLoggedIn, another one can enter
\* it and can go on from its status check to its own sign-in: nothing makes
\* the second wait for the first.
C29_AuthNotSerialized ==
    \A c \in Conns, d \in Conns :
        (c # d /\ Running /\ InAuth(d)) =>
            /\ pc[c] = "ReadingRequest" => ENABLED ReadRequest(c)
            /\ pc[c] = "CheckingStatus" => ENABLED StatusExit(c, FALSE, "started")

\* two connections run the sign-in for the same account at the same time
C29_Witness ==
    \E c \in Conns, d \in Conns :
        /\ c # d
        /\ pc[c] = "SigningIn" /\ pc[d] = "SigningIn"
        /\ spawns[c][Len(spawns[c])] = Spawn("signin", SigninArgs)
        /\ spawns[d][Len(spawns[d])] = Spawn("signin", SigninArgs)

\* two connections run the status check at the same time
C29_BothChecking ==
    \E c \in Conns, d \in Conns :
        c # d /\ pc[c] = "CheckingStatus" /\ pc[d] = "CheckingStatus"


\* ---------------------------------------------------------------- C30
\* every argument is non-empty and has no white space in it
GoodArgs(args) ==
    \A i \in 1..Len(args) :
        args[i] # <<>> /\ \A k \in 1..Len(args[i]) : args[i][k] \notin WhiteSpace

\* C30: for client arguments that are non-empty and free of white space, the
\* client's line has exactly one newline, at its end; the server allows it
\* exactly when the policy allows the arguments joined by single spaces; and
\* the command, when started, gets ["--account", account] followed by
\* exactly the client's arguments in order.
C30_RoundTrip ==
    \A c \in Conns :
        (pc[c] # "idle" /\ GoodArgs(fnIn)) =>
            /\ NewlineAt(sent[c]) = {Len(sent[c])}
            /\ PastRead(c) =>
                   (Has(c, "validate") <=> PolicyAllows(Join(fnIn, <<" ">>)))
            /\ \A k \in CommandSpawns(c) :
                   spawns[c][k].argv = <<Str("--account"), config.Account>> \o fnIn

\* the client was called with the arguments b and ab; the command got them
\* and the connection has been served to the end
C30_Witness ==
    \E c \in Conns :
        /\ fnIn = << <<"b">>, <<"a", "b">> >>
        /\ sent[c] = <<"b", " ", "a", "b", "\n">>
        /\ pc[c] = "Closed" /\ Has(c, "relay")
        /\ \E k \in CommandSpawns(c) :
               spawns[c][k].argv =
                   <<Str("--account"), config.Account, <<"b">>, <<"a", "b">> >>

\* an argument with a space in it reaches the command as two arguments
C30_SplitArgument ==
    \E c \in Conns :
        /\ fnIn = << <<"b", " ">>, <<"a">> >>
        /\ \E k \in CommandSpawns(c) :
               spawns[c][k].argv = <<Str("--account"), config.Account, <<"b">>, <<"a">> >>

\* ----------------------------------------------------------------------
\* what has been read from the pipes of c's child when Wait closes them
Unread(c) == {s \in Streams : pipe[c][s] # <<>>}

\* C31: the wait on the child is issued only after both copy tasks have been
\* started, and when the wait closes the child's pipes the copies have read
\* all data: while the handler is in opCmd.Wait both copies have been
\* started, and once the pipes are closed nothing is left unread in them.
C31_WaitAfterCopies ==
    \A c \in Conns :
        /\ pc[c] = "Relaying" => \A s \in Streams : copier[c][s] # "none"
        /\ pipesClosed[c] => Unread(c) = {}

\* the first half on its own: the handler is in opCmd.Wait (or past it) only
\* with both copies started
C31_CopiesStartedBeforeWait ==
    \A c \in Conns :
        (pc[c] \in {"Relaying", "WgWait"} \/ pipesClosed[c])
            => \A s \in Streams : copier[c][s] # "none"

\* ----------------------------------------------------------------------
\* C32: a newline-terminated request line of any length is read in full and
\* then validated: whenever the peer sent a newline the handler reads the
\* first line, validates exactly that line, and a line the policy allows
\* does not end in a connection closed without a response or a subprocess.
C32_AnyLengthRead ==
    \A c \in Conns :
        (PastRead(c) /\ NewlineAt(sent[c]) # {}) =>
            /\ Has(c, "read")
            /\ input[c] = TrimSpace(FirstLineOf(sent[c]))
            /\ PolicyAllows(TrimSpace(FirstLineOf(sent[c]))) => ~ClosedSilently(c)

\* what the code keeps: the same for lines of fewer than MaxScanTokenSize
\* bytes
C32_ShortLineRead ==
    \A c \in Conns :
        (/\ PastRead(c)
         /\ NewlineAt(sent[c]) # {}
         /\ ByteLen(FirstLineOf(sent[c])) < MaxScanTokenSize) =>
            /\ Has(c, "read")
            /\ input[c] = TrimSpace(FirstLineOf(sent[c]))
            /\ PolicyAllows(TrimSpace(FirstLineOf(sent[c]))) => ~ClosedSilently(c)

\* an allowed line of more than 64 KiB was dropped without a response
C32_LongLineDropped ==
    \E c \in Conns :
        /\ sent[c] = <<"b", LongRun, "\n">>
        /\ PolicyAllows(<<"b", LongRun>>)
        /\ ClosedSilently(c)
        /\ logs[c] = <<"Error reading from connection">>

\* ----------------------------------------------------------------------
\* the indices of argv at which the token "--account" stands
AccountFlagsIn(argv) == {j \in 1..Len(argv) : argv[j] = Str("--account")}

\* C36: in the argument vector of every spawned command the token
\* "--account" occurs exactly once, as the first argument, followed by the
\* configured account, whatever request the policy admitted.
C36_AccountScoped ==
    \A c \in Conns : \A k \in CommandSpawns(c) :
        LET argv == spawns[c][k].argv
        IN  /\ Len(argv) >= 2
            /\ argv[1] = Str("--account")
            /\ argv[2] = config.Account
            /\ AccountFlagsIn(argv) = {1}

\* what the code keeps: the vector starts with "--account" and the account
C36_AccountFirst ==
    \A c \in Conns : \A k \in CommandSpawns(c) :
        LET argv == spawns[c][k].argv
        IN  /\ Len(argv) >= 2
            /\ argv[1] = Str("--account")
            /\ argv[2] = config.Account

\* a request admitted by the prefix "b" has brought its own "--account"
C36_SecondAccountFlag ==
    \E c \in Conns : \E k \in CommandSpawns(c) :
        /\ input[c] = <<"b", " ", AccountOption>>
        /\ spawns[c][k].argv =
               <<Str("--account"), config.Account, <<"b">>, Str("--account")>>

\* ----------------------------------------------------------------------
\* the caller-supplied part of an argument vector: what follows "--account"
\* and the account
CallerArgs(argv) == SubSeq(argv, 3, Len(argv))

\* the prefix entries that admit the request line s
AdmittingPrefixes(s) ==
    {i \in 1..Len(config.AllowedPrefixes) :
        \E t \in Trimmed(s) : IsLiteralPrefix(config.AllowedPrefixes[i], t)}

\* C37 as stated: for every request admitted by a prefix entry p, the tokens
\* of p are a token-wise prefix of the caller-supplied part of the argument
\* vector of the command spawned for it.
C37_AsStated ==
    \A c \in Conns : \A k \in CommandSpawns(c) :
        \A i \in AdmittingPrefixes(fnIn) :
            IsPrefixSeq(WhitespaceSplit(config.AllowedPrefixes[i]),
                        CallerArgs(spawns[c][k].argv))

\* C37: for every request admitted by a prefix entry p with the tokens
\* t1 .. tn, the caller-supplied part of the argument vector of the command
\* spawned for it has at least n tokens, its first n - 1 tokens are
\* t1 .. t(n-1), and its n-th token begins with tn, and is tn when p ends in
\* white space.
C37_PrefixByCharacters ==
    \A c \in Conns : \A k \in CommandSpawns(c) :
        /\ sent[c] = fnIn \o <<"\n">>
        /\ AdmittingPrefixes(fnIn) # {}
        /\ \A i \in AdmittingPrefixes(fnIn) :
               LET p == config.AllowedPrefixes[i]
                   t == WhitespaceSplit(p)
                   n == Len(t)
                   args == CallerArgs(spawns[c][k].argv)
               IN  n >= 1 =>
                       /\ Len(args) >= n
                       /\ \A m \in 1..(n - 1) : args[m] = t[m]
                       /\ IsLiteralPrefix(t[n], args[n])
                       /\ p[Len(p)] \in WhiteSpace => args[n] = t[n]

\* the request "a aa" was admitted by the prefix "a a" and its command was
\* spawned: its second token only begins with the second token of the entry
C37_Witness ==
    \E c \in Conns : \E k \in CommandSpawns(c) :
        /\ config.AllowedPrefixes = << <<"a", " ", "a">> >>
        /\ fnIn = <<"a", " ", "a", "a">>
        /\ CallerArgs(spawns[c][k].argv) = << <<"a">>, <<"a", "a">> >>

\* a vertical tab in the request splits it into two arguments
C37_VerticalTabSplits ==
    \E c \in Conns : \E k \in CommandSpawns(c) :
        /\ config.AllowedPrefixes = << <<"a">> >>
        /\ fnIn = <<"a", VT, "a">>
        /\ CallerArgs(spawns[c][k].argv) = << <<"a">>, <<"a">> >>

\* ----------------------------------------------------------------------
\* C33: the policy and the account are immutable after server start: no step
\* of connection handling, authentication, relaying, the accept loop or
\* shutdown changes the global config.
C33_ConfigImmutable == [][config' = config]_vars

\* a request was served to its end and the server was shut down with its
\* cleanup, and the config is the one the server was started with
C33_Witness ==
    /\ \E c \in Conns : pc[c] = "Closed" /\ Has(c, "relay")
    /\ \E i \in Instances : ipc[i] = "exited" /\ Cleanups(i) # {}
    /\ config = Policy(<< <<"a", " ", "b">> >>, << <<"b">> >>)

\* ----------------------------------------------------------------------
\* instance i calls cleanupSocket in this step
CleanupStep(i) == Cleanups(i)' # Cleanups(i)

\* instance j is listening on the socket file at the path
ListeningOnFile(j) == Owns(j) /\ listener[j] = "open"

\* C34: a shutting-down instance removes only its own socket: no
\* cleanupSocket of one instance deletes the socket file on which another
\* instance is listening.
C34_RemovesOnlyOwnSocket ==
    [][\A i \in Instances : \A j \in Instances \ {i} :
          (CleanupStep(i) /\ ListeningOnFile(j)) => fsFile' = fsFile]_vars

\* the second instance listens on a path from which the first one's
\* cleanupSocket has removed the socket file
C34_OtherSocketRemoved ==
    \E i \in Instances : \E j \in Instances \ {i} :
        /\ Cleanups(i) # {}
        /\ ipc[j] = "serving"
        /\ listener[j] = "open"
        /\ fsFile = NoFile

\* ----------------------------------------------------------------------
\* where main is while it runs setupSocket
SetupStates == {"stat", "mkdir", "listen", "chmod", "closing", "removing", "returning"}

\* instance i takes a step of setupSocket
SetupStep(i) == ipc[i] \in SetupStates /\ ipc'[i] # ipc[i]

OpenListeners == {i \in Instances : listener[i] = "open"}

\* C35: when two instances run setupSocket on the same path, at most one of
\* them has a listener, and no step of the other one's setupSocket removes,
\* binds again or changes the permissions of the socket file on which the
\* winner is listening.
C35_OneWinner ==
    [][/\ Cardinality(OpenListeners') <= 1
       /\ \A i \in Instances : \A j \in Instances \ {i} :
              (SetupStep(i) /\ ListeningOnFile(j)) => fsFile' = fsFile]_vars

\* what the code keeps: two instances never hold an open listener at once,
\* and a setupSocket whose os.Chmod succeeded leaves the winner's file alone
C35_AtMostOneListener == Cardinality(OpenListeners) <= 1

C35_LoserKeepsOutUnlessChmodFailed ==
    [][\A i \in Instances : \A j \in Instances \ {i} :
          (SetupStep(i) /\ ListeningOnFile(j) /\ ipc[i] # "removing")
              => fsFile' = fsFile]_vars

\* ----------------------------------------------------------------------
\* main of instance i logs "Server shutdown completed" and returns
ShutdownCompletes(i) ==
    /\ ipc[i] = "serving"
    /\ ipc'[i] = "exited"
    /\ ilog'[i] = Append(ilog[i], "Server shutdown completed")

\* C39: main logs "Server shutdown completed" and returns only in a state
\* where the signal goroutine has already closed the listener and removed
\* the socket file.
C39_ShutdownAfterCleanup ==
    [][\A i \in Instances :
          ShutdownCompletes(i) =>
              /\ sigpc[i] = "done"
              /\ listener[i] = "closed"
              /\ ~Owns(i)]_vars

\* what the code keeps: once the process has ended its listener is closed and
\* its socket file is gone, unlinked by the signal goroutine or by main's
\* deferred listener.Close()
C39_ExitedSocketGone ==
    \A i \in Instances : ipc[i] = "exited" => (listener[i] # "open" /\ ~Owns(i))

\* main has returned while the signal goroutine had only cancelled the
\* context: cleanupSocket never ran
C39_ReturnedBeforeCleanup ==
    \E i \in Instances :
        /\ ipc[i] = "exited"
        /\ sigpc[i] = "cancelled"
        /\ ilog[i][Len(ilog[i])] = "Server shutdown completed"
        /\ Cleanups(i) = {}

\* ----------------------------------------------------------------------
\* instance i logs an accept error in this step
AcceptErrorStep(i) == AcceptErrors(i)' # AcceptErrors(i)

\* C38: the accept loop stops only on shutdown: it returns only with the
\* context cancelled; an Accept error with the context still live is logged
\* and leaves the loop accepting, on a listener that is still open; and once
\* the context is cancelled and the listener closed the loop eventually
\* returns, unless the process has ended before.
C38_AcceptLoopStopsOnlyOnShutdown ==
    /\ [][\A i \in Instances :
             /\ (acceptpc[i] = "accepting" /\ acceptpc'[i] = "returned")
                    => Cancelled(i)
             /\ AcceptErrorStep(i) =>
                    /\ ~Cancelled(i)
                    /\ acceptpc'[i] = "accepting"
                    /\ listener'[i] = "open"
                    /\ ipc'[i] = "serving"]_vars
    /\ \A i \in Instances :
           (Cancelled(i) /\ listener[i] = "closed")
               ~> (acceptpc[i] = "returned" \/ ipc[i] = "exited")

\* after a transient accept error the server has accepted a connection and
\* served its request, and on shutdown the accept loop has returned while
\* main was still there
C38_Witness ==
    \E i \in Instances : \E c \in Conns :
        /\ AcceptErrors(i) # {}
        /\ pc[c] = "Closed"
        /\ acceptpc[i] = "returned"
        /\ ipc[i] = "serving"
        /\ listener[i] = "closed"

\* ----------------------------------------------------------------------
\* C40: when the peer closes its end of the connection while the child is
\* still running, the handler of the connection still terminates: the child
\* is reaped, the handler returns and the connection is closed.
C40_HangupTerminates ==
    \A c \in Conns :
        hungup[c] ~> (pc[c] = "Closed" /\ connClosed[c] /\ ChildExited(c))

\* what the code keeps: after a hang-up the handler terminates unless the
\* child blocks in a write to a pipe that nobody reads any more
C40_TerminatesUnlessChildBlocked ==
    \A c \in Conns :
        hungup[c] ~> \/ pc[c] = "Closed" /\ connClosed[c] /\ ChildExited(c)
                     \/ \E s \in Streams :
                            /\ child[c] = BlockedOn(s)
                            /\ copier[c][s] = "done"
                            /\ pipe[c][s] # <<>>

\* the peer has hung up, the copy of a stream has ended on its failed write,
\* and the child is blocked writing to that stream's full pipe while the
\* handler waits for it
C40_Stuck ==
    \E c \in Conns : \E s \in Streams :
        /\ hungup[c]
        /\ pc[c] = "Relaying"
        /\ child[c] = BlockedOn(s)
        /\ copier[c][s] = "done"
        /\ pipe[c][s] # <<>>
        /\ ~ENABLED WaitReturns(c)

====
